---- MODULE Spec2Model ----
(***************************************************************************)
(* Model of the steamid identifier codec (package steamid).                *)
(*                                                                         *)
(* Strings are sequences of one-character strings.  A uint64 is a tuple of *)
(* four 16-bit limbs, least significant first; a SID32 (uint32) is a tuple *)
(* of two limbs.  A signed 64-bit integer is a record [neg, mag] whose     *)
(* magnitude is a uint64.  Universe, AccountType and Instance are Go ints  *)
(* and are kept as integers.                                               *)
(***************************************************************************)
EXTENDS Integers, Sequences, FiniteSets, TLC

VARIABLES sid, input, text, form, orig, num, valid, op,
          body, ids, idType, output, err,
          status, full, parsed,
          recv, idGen, calls, returned

\* the state of a caller of the scanner of package extra
scanVars == <<body, ids, idType, output, err>>

\* the state of a caller of ParseStatus
statusVars == <<status, full, parsed>>

\* the state of a caller of package extra
extraVars == <<body, ids, idType, output, err, status, full, parsed>>

\* the state of the callers of RandSID64: the package variable idGen, each
\* goroutine's position and local id, and the SteamIDs returned so far
randVars == <<idGen, calls, returned>>

\* the state of a caller of package steamid
codecVars == <<sid, input, text, form, orig, num, valid>>

vars == <<sid, input, text, form, orig, num, valid, op, body, ids, idType, output, err,
          status, full, parsed, recv, idGen, calls, returned>>

----------------------------------------------------------------------------
(* Machine arithmetic                                                      *)

Radix == 256 * 256

Zero64 == <<0, 0, 0, 0>>

MaxLimb == Radix - 1

RECURSIVE BitAnd(_, _)
BitAnd(a, b) ==
    IF a = 0 \/ b = 0 THEN 0
    ELSE ((a % 2) * (b % 2)) + 2 * BitAnd(a \div 2, b \div 2)

RECURSIVE BitOr(_, _)
BitOr(a, b) ==
    IF a = 0 THEN b
    ELSE IF b = 0 THEN a
    ELSE (IF (a % 2) + (b % 2) > 0 THEN 1 ELSE 0) + 2 * BitOr(a \div 2, b \div 2)

Or64(x, y) == [k \in 1..4 |-> BitOr(x[k], y[k])]

\* x + y modulo 2^64
Add64(x, y) ==
    LET s1 == x[1] + y[1]
        s2 == x[2] + y[2] + (s1 \div Radix)
        s3 == x[3] + y[3] + (s2 \div Radix)
        s4 == x[4] + y[4] + (s3 \div Radix)
    IN  <<s1 % Radix, s2 % Radix, s3 % Radix, s4 % Radix>>

\* x < y on uint64
Lt64(x, y) ==
    \/ x[4] < y[4]
    \/ x[4] = y[4] /\ x[3] < y[3]
    \/ x[4] = y[4] /\ x[3] = y[3] /\ x[2] < y[2]
    \/ x[4] = y[4] /\ x[3] = y[3] /\ x[2] = y[2] /\ x[1] < y[1]

\* two's complement negation, 2^64 - x modulo 2^64
Neg64(x) == Add64([k \in 1..4 |-> MaxLimb - x[k]], <<1, 0, 0, 0>>)

\* x * 10 + d, with the carry out of bit 63
MulAdd10(x, d) ==
    LET c1 == x[1] * 10 + d
        c2 == x[2] * 10 + (c1 \div Radix)
        c3 == x[3] * 10 + (c2 \div Radix)
        c4 == x[4] * 10 + (c3 \div Radix)
    IN  [val |-> <<c1 % Radix, c2 % Radix, c3 % Radix, c4 % Radix>>,
         carry |-> c4 \div Radix]

\* quotient and remainder of x by 10
DivMod10(x) ==
    LET n4 == x[4]
        n3 == (n4 % 10) * Radix + x[3]
        n2 == (n3 % 10) * Radix + x[2]
        n1 == (n2 % 10) * Radix + x[1]
    IN  [q |-> <<n1 \div 10, n2 \div 10, n3 \div 10, n4 \div 10>>, r |-> n1 % 10]

\* a small non-negative integer as a uint64
ToU64(n) == <<n % Radix, (n \div Radix) % Radix, 0, 0>>

\* a uint32 widened to uint64
Widen(a) == <<a[1], a[2], 0, 0>>

\* conversion SID32(x) of a uint64: the low 32 bits
SID32(x) == <<x[1], x[2]>>

\* conversion int64(x) of a uint64: the same bits read as two's complement
ToInt64(x) ==
    IF x[4] >= Radix \div 2 THEN [neg |-> TRUE, mag |-> Neg64(x)]
    ELSE [neg |-> FALSE, mag |-> x]

----------------------------------------------------------------------------
(* Text                                                                    *)

DigitChars == <<"0", "1", "2", "3", "4", "5", "6", "7", "8", "9">>

Digits == {DigitChars[k] : k \in 1..10}

DigitVal(c) == (CHOOSE k \in 1..10 : DigitChars[k] = c) - 1

Letters ==
    {"a", "b", "c", "d", "e", "f", "g", "h", "i", "j", "k", "l", "m",
     "n", "o", "p", "q", "r", "s", "t", "u", "v", "w", "x", "y", "z",
     "A", "B", "C", "D", "E", "F", "G", "H", "I", "J", "K", "L", "M",
     "N", "O", "P", "Q", "R", "S", "T", "U", "V", "W", "X", "Y", "Z"}

AllDigits(s) == \A k \in 1..Len(s) : s[k] \in Digits

RECURSIVE FormatDigits(_)
FormatDigits(x) ==
    IF x = Zero64 THEN <<>>
    ELSE LET dm == DivMod10(x) IN Append(FormatDigits(dm.q), DigitChars[dm.r + 1])

\* fmt.Sprintf("%d", v) of an unsigned value
FormatUint(x) == IF x = Zero64 THEN <<"0">> ELSE FormatDigits(x)

\* fmt.Sprintf("%d", v) of a signed value
FormatInt(v) == IF v.neg THEN <<"-">> \o FormatUint(v.mag) ELSE FormatUint(v.mag)

RECURSIVE ParseDigits(_, _, _)
ParseDigits(s, k, acc) ==
    IF k > Len(s) THEN [ok |-> TRUE, val |-> acc]
    ELSE LET m == MulAdd10(acc, DigitVal(s[k]))
         IN  IF m.carry > 0 THEN [ok |-> FALSE, val |-> Zero64]
             ELSE ParseDigits(s, k + 1, m.val)

\* strconv.ParseUint(s, 10, 64): an error for the empty string, for any
\* character that is not a digit (a sign included) and for a value past 2^64-1
ParseUint(s) ==
    IF Len(s) = 0 \/ ~AllDigits(s) THEN [ok |-> FALSE, val |-> Zero64]
    ELSE ParseDigits(s, 1, Zero64)

----------------------------------------------------------------------------
(* Types and constants                                                     *)

\* BaseSID = uint64(76561197960265728), read from its decimal literal
BaseSID ==
    ParseUint(<<"7", "6", "5", "6", "1", "1", "9", "7", "9",
                "6", "0", "2", "6", "5", "7", "2", "8">>).val

InstanceMask == 1048575

ClanMask == (InstanceMask + 1) \div 2

Lobby == (InstanceMask + 1) \div 4

UniverseInvalid == 0
UniversePublic == 1
UniverseBeta == 2
UniverseInternal == 3
UniverseDev == 4
UniverseRC == 5

AccountTypeInvalid == 0
AccountTypeIndividual == 1
AccountTypeMultiSeat == 2
AccountTypeGameServer == 3
AccountTypeAnonGameServer == 4
AccountTypePending == 5
AccountTypeContentServer == 6
AccountTypeClan == 7
AccountTypeChat == 8
AccountTypeP2PSuperSeeder == 9
AccountTypeAnonUser == 10

InstanceAll == 0
InstanceDesktop == 1
InstanceConsole == 2
InstanceWeb == 3

\* a SteamID struct value
SteamID(a, i, t, u) ==
    [AccountID |-> a, Instance |-> i, AccountType |-> t, Universe |-> u]

invalidSID == SteamID(<<0, 0>>, InstanceAll, AccountTypeInvalid, UniverseInvalid)

\* AccountType.Letter: the letter as a string of length 0 or 1
Letter(ac) ==
    CASE ac = AccountTypeIndividual -> <<"U">>
      [] ac = AccountTypeMultiSeat -> <<"M">>
      [] ac = AccountTypeGameServer -> <<"G">>
      [] ac = AccountTypeAnonGameServer -> <<"A">>
      [] ac = AccountTypePending -> <<"P">>
      [] ac = AccountTypeContentServer -> <<"C">>
      [] ac = AccountTypeClan -> <<"g">>
      [] ac = AccountTypeChat -> <<"T">>
      [] ac = AccountTypeP2PSuperSeeder -> <<>>
      [] ac = AccountTypeAnonUser -> <<"a">>
      [] OTHER -> <<"I">>

\* accountTypeFromLetter without the case of the empty letter
accountTypeFromLetterNoEmpty(l) ==
    CASE l = <<"U">> -> AccountTypeIndividual
      [] l = <<"M">> -> AccountTypeMultiSeat
      [] l = <<"G">> -> AccountTypeGameServer
      [] l = <<"A">> -> AccountTypeAnonGameServer
      [] l = <<"P">> -> AccountTypePending
      [] l = <<"C">> -> AccountTypeContentServer
      [] l = <<"g">> -> AccountTypeClan
      [] l = <<"T">> -> AccountTypeChat
      [] l = <<"a">> -> AccountTypeAnonUser
      [] OTHER -> AccountTypeInvalid

accountTypeFromLetter(l) ==
    CASE l = <<"U">> -> AccountTypeIndividual
      [] l = <<"M">> -> AccountTypeMultiSeat
      [] l = <<"G">> -> AccountTypeGameServer
      [] l = <<"A">> -> AccountTypeAnonGameServer
      [] l = <<"P">> -> AccountTypePending
      [] l = <<"C">> -> AccountTypeContentServer
      [] l = <<"g">> -> AccountTypeClan
      [] l = <<"T">> -> AccountTypeChat
      [] l = <<>> -> AccountTypeP2PSuperSeeder
      [] l = <<"a">> -> AccountTypeAnonUser
      [] OTHER -> AccountTypeInvalid

----------------------------------------------------------------------------
(* Patterns compiled by init                                               *)

SteamPrefix == <<"S", "T", "E", "A", "M", "_">>

\* reSteam2.FindStringSubmatch for ^STEAM_([0-5]):([0-1]):([0-9]+)$
\* <<>> is the nil match; otherwise the whole match and the three groups
reSteam2(s) ==
    IF /\ Len(s) >= 11
       /\ SubSeq(s, 1, 6) = SteamPrefix
       /\ s[7] \in {"0", "1", "2", "3", "4", "5"}
       /\ s[8] = ":"
       /\ s[9] \in {"0", "1"}
       /\ s[10] = ":"
       /\ AllDigits(SubSeq(s, 11, Len(s)))
    THEN <<s, <<s[7]>>, <<s[9]>>, SubSeq(s, 11, Len(s))>>
    ELSE <<>>

\* reSteam3.FindStringSubmatch for ^\[([a-zA-Z]):([0-5]):([0-9]+)(:[0-9]+)?]$
\* <<>> is the nil match; otherwise the whole match and the four groups
reSteam3(s) ==
    IF /\ Len(s) >= 7
       /\ s[1] = "["
       /\ s[2] \in Letters
       /\ s[3] = ":"
       /\ s[4] \in {"0", "1", "2", "3", "4", "5"}
       /\ s[5] = ":"
       /\ s[Len(s)] = "]"
    THEN LET rest == SubSeq(s, 6, Len(s) - 1)
             colons == {k \in 1..Len(rest) : rest[k] = ":"}
         IN  IF colons = {} /\ AllDigits(rest)
             THEN <<s, <<s[2]>>, <<s[4]>>, rest, <<>>>>
             ELSE IF /\ Cardinality(colons) = 1
                     /\ LET p == CHOOSE k \in colons : TRUE
                        IN  /\ p > 1
                            /\ p < Len(rest)
                            /\ AllDigits(SubSeq(rest, 1, p - 1))
                            /\ AllDigits(SubSeq(rest, p + 1, Len(rest)))
             THEN LET p == CHOOSE k \in colons : TRUE
                  IN  <<s, <<s[2]>>, <<s[4]>>, SubSeq(rest, 1, p - 1),
                        SubSeq(rest, p, Len(rest))>>
             ELSE <<>>
    ELSE <<>>

----------------------------------------------------------------------------
(* The codec                                                               *)

\* a uint64 known to be below 2^31, as an integer
Small(x) == x[1] + x[2] * Radix

\* fromSteam2Strings that stores universe digit 0 as it is
fromSteam2StringsRawUniverse(match) ==
    LET universeInt == ParseUint(match[2])
        intVal == ParseUint(match[3])
        accountIDInt == ParseUint(match[4])
    IN  IF ~universeInt.ok \/ ~intVal.ok \/ ~accountIDInt.ok THEN invalidSID
        ELSE SteamID(SID32(Add64(Add64(accountIDInt.val, accountIDInt.val), intVal.val)),
                     InstanceDesktop,
                     AccountTypeIndividual,
                     Small(universeInt.val))

fromSteam2Strings(match) ==
    LET universeInt == ParseUint(match[2])
        intVal == ParseUint(match[3])
        accountIDInt == ParseUint(match[4])
    IN  IF ~universeInt.ok \/ ~intVal.ok \/ ~accountIDInt.ok THEN invalidSID
        ELSE SteamID(SID32(Add64(Add64(accountIDInt.val, accountIDInt.val), intVal.val)),
                     InstanceDesktop,
                     AccountTypeIndividual,
                     IF Small(universeInt.val) > 0 THEN Small(universeInt.val)
                     ELSE UniversePublic)

\* fromSteam3Strings whose letter c takes its AccountType from the letter table
fromSteam3StringsNoChat(match) ==
    LET ir == match[2]
        universeInt == ParseUint(match[3])
        accountIDInt == ParseUint(match[4])
        byLetter == CASE ir = <<"U">> -> InstanceDesktop
                      [] ir = <<"A">> -> InstanceAll
                      [] ir = <<"C">> -> InstanceConsole
                      [] ir = <<"W">> -> InstanceWeb
                      [] OTHER -> InstanceAll
    IN  IF ~universeInt.ok \/ ~accountIDInt.ok THEN invalidSID
        ELSE CASE ir = <<"c">> ->
                    SteamID(SID32(accountIDInt.val), BitOr(byLetter, ClanMask),
                            accountTypeFromLetter(ir), Small(universeInt.val))
               [] ir = <<"L">> ->
                    SteamID(SID32(accountIDInt.val), BitOr(byLetter, Lobby),
                            AccountTypeInvalid, Small(universeInt.val))
               [] OTHER ->
                    SteamID(SID32(accountIDInt.val), byLetter,
                            accountTypeFromLetter(ir), Small(universeInt.val))

\* fromSteam3Strings that takes the Instance from the 4th segment when the
\* text has one
fromSteam3StringsWithInstance(match) ==
    LET ir == match[2]
        universeInt == ParseUint(match[3])
        accountIDInt == ParseUint(match[4])
        byLetter == CASE match[5] # <<>> /\ ParseUint(Tail(match[5])).ok ->
                           Small(ParseUint(Tail(match[5])).val) % (InstanceMask + 1)
                      [] ir = <<"U">> -> InstanceDesktop
                      [] ir = <<"A">> -> InstanceAll
                      [] ir = <<"C">> -> InstanceConsole
                      [] ir = <<"W">> -> InstanceWeb
                      [] OTHER -> InstanceAll
    IN  IF ~universeInt.ok \/ ~accountIDInt.ok THEN invalidSID
        ELSE CASE ir = <<"c">> ->
                    SteamID(SID32(accountIDInt.val), BitOr(byLetter, ClanMask),
                            AccountTypeChat, Small(universeInt.val))
               [] ir = <<"L">> ->
                    SteamID(SID32(accountIDInt.val), BitOr(byLetter, Lobby),
                            AccountTypeInvalid, Small(universeInt.val))
               [] OTHER ->
                    SteamID(SID32(accountIDInt.val), byLetter,
                            accountTypeFromLetter(ir), Small(universeInt.val))

fromSteam3Strings(match) ==
    LET ir == match[2]
        universeInt == ParseUint(match[3])
        accountIDInt == ParseUint(match[4])
        byLetter == CASE ir = <<"U">> -> InstanceDesktop
                      [] ir = <<"A">> -> InstanceAll
                      [] ir = <<"C">> -> InstanceConsole
                      [] ir = <<"W">> -> InstanceWeb
                      [] OTHER -> InstanceAll
    IN  IF ~universeInt.ok \/ ~accountIDInt.ok THEN invalidSID
        ELSE CASE ir = <<"c">> ->
                    SteamID(SID32(accountIDInt.val), BitOr(byLetter, ClanMask),
                            AccountTypeChat, Small(universeInt.val))
               [] ir = <<"L">> ->
                    SteamID(SID32(accountIDInt.val), BitOr(byLetter, Lobby),
                            AccountTypeInvalid, Small(universeInt.val))
               [] OTHER ->
                    SteamID(SID32(accountIDInt.val), byLetter,
                            accountTypeFromLetter(ir), Small(universeInt.val))

\* a value below BaseSID: a bare account id
fromUInt64(intVal) ==
    SteamID(SID32(intVal), InstanceDesktop, AccountTypeIndividual, UniversePublic)

\* fromAccountID with the instance masked to 16 bits instead of 20
fromAccountIDMask16(accountID) ==
    SteamID(<<accountID[1], accountID[2]>>,
            accountID[3],
            BitAnd(accountID[4] \div 16, 15),
            accountID[4] \div 256)

\* a packed value: the four fields by shift and mask
fromAccountID(accountID) ==
    SteamID(<<accountID[1], accountID[2]>>,
            accountID[3] + Radix * BitAnd(accountID[4], 15),
            BitAnd(accountID[4] \div 16, 15),
            accountID[4] \div 256)

IntTypes == {"int32", "int", "int64"}

\* the type switch of New without the int32 case
NewValueNoInt32(in) ==
    CASE in.type = "string" -> IF in.str = <<"0">> \/ in.str = <<>> THEN <<>> ELSE in.str
      [] in.type = "uint64" -> IF in.val.mag = Zero64 THEN <<>> ELSE FormatUint(in.val.mag)
      [] in.type \in {"int", "int64"} ->
            IF in.val.mag = Zero64 THEN <<>> ELSE FormatInt(in.val)
      [] OTHER -> <<>>

\* the type switch of New: the text the rest of New works on, <<>> when New
\* returns invalidSID at once
NewValue(in) ==
    CASE in.type = "string" -> IF in.str = <<"0">> \/ in.str = <<>> THEN <<>> ELSE in.str
      [] in.type = "uint64" -> IF in.val.mag = Zero64 THEN <<>> ELSE FormatUint(in.val.mag)
      [] in.type \in IntTypes -> IF in.val.mag = Zero64 THEN <<>> ELSE FormatInt(in.val)
      [] OTHER -> <<>>

\* New that takes a decimal text of fewer than 17 digits for a bare account
\* id, whatever its value
NewByLength(in) ==
    LET value == NewValue(in)
        match2 == reSteam2(value)
        match3 == reSteam3(value)
        intVal == ParseUint(value)
    IN  IF value = <<>> THEN invalidSID
        ELSE IF match2 # <<>> THEN fromSteam2Strings(match2)
        ELSE IF match3 # <<>> THEN fromSteam3Strings(match3)
        ELSE IF ~intVal.ok THEN invalidSID
        ELSE IF Len(value) < 17 THEN fromUInt64(intVal.val)
        ELSE fromAccountID(intVal.val)

New(in) ==
    LET value == NewValue(in)
        match2 == reSteam2(value)
        match3 == reSteam3(value)
        intVal == ParseUint(value)
    IN  IF value = <<>> THEN invalidSID
        ELSE IF match2 # <<>> THEN fromSteam2Strings(match2)
        ELSE IF match3 # <<>> THEN fromSteam3Strings(match3)
        ELSE IF ~intVal.ok THEN invalidSID
        ELSE IF Lt64(intVal.val, BaseSID) THEN fromUInt64(intVal.val)
        ELSE fromAccountID(intVal.val)

\* Equal that does not compare the AccountType
EqualIgnoreAccountType(t, id) ==
    /\ t.AccountID = id.AccountID
    /\ t.Instance = id.Instance
    /\ t.Universe = id.Universe

Equal(t, id) ==
    /\ t.AccountID = id.AccountID
    /\ t.AccountType = id.AccountType
    /\ t.Instance = id.Instance
    /\ t.Universe = id.Universe

\* Packed with the account type shifted by 48 instead of 52
PackedShift48(t) ==
    Or64(Or64(Or64(<<0, 0, 0, (t.Universe % 256) * 256>>,
                   <<0, 0, 0, t.AccountType % Radix>>),
              <<0, 0, t.Instance % Radix, (t.Instance \div Radix) % Radix>>),
         Widen(t.AccountID))

\* the uint64 that Int64 builds before its conversion to int64
Packed(t) ==
    Or64(Or64(Or64(<<0, 0, 0, (t.Universe % 256) * 256>>,
                   <<0, 0, 0, (t.AccountType % 4096) * 16>>),
              <<0, 0, t.Instance % Radix, (t.Instance \div Radix) % Radix>>),
         Widen(t.AccountID))

Int64(t) == ToInt64(Packed(t))

String(t) == FormatInt(Int64(t))

\* Valid with universe RC accepted
ValidAcceptRC(t) ==
    IF t.AccountType <= AccountTypeInvalid \/ t.AccountType > AccountTypeAnonUser
    THEN FALSE
    ELSE IF t.Universe <= UniverseInvalid \/ t.Universe > UniverseRC
    THEN FALSE
    ELSE IF /\ t.AccountType = AccountTypeIndividual
            /\ (t.AccountID = <<0, 0>> \/ t.Instance > InstanceWeb)
    THEN FALSE
    ELSE IF /\ t.AccountType = AccountTypeClan
            /\ (t.AccountID = <<0, 0>> \/ t.Instance # InstanceAll)
    THEN FALSE
    ELSE IF t.AccountType = AccountTypeGameServer /\ t.AccountID = <<0, 0>>
    THEN FALSE
    ELSE TRUE

Valid(t) ==
    IF t.AccountType <= AccountTypeInvalid \/ t.AccountType > AccountTypeAnonUser
    THEN FALSE
    ELSE IF t.Universe <= UniverseInvalid \/ t.Universe > UniverseDev
    THEN FALSE
    ELSE IF /\ t.AccountType = AccountTypeIndividual
            /\ (t.AccountID = <<0, 0>> \/ t.Instance > InstanceWeb)
    THEN FALSE
    ELSE IF /\ t.AccountType = AccountTypeClan
            /\ (t.AccountID = <<0, 0>> \/ t.Instance # InstanceAll)
    THEN FALSE
    ELSE IF t.AccountType = AccountTypeGameServer /\ t.AccountID = <<0, 0>>
    THEN FALSE
    ELSE TRUE

\* AccountID / 2, rounded down
Half(a) == <<(a[1] \div 2) + (a[2] % 2) * (Radix \div 2), a[2] \div 2>>

\* Steam with the auth bit and the account half in each other's place
SteamSwapped(t, format) ==
    IF t.AccountType # AccountTypeIndividual THEN <<>>
    ELSE LET uni == IF ~format /\ t.Universe = 1 THEN 0 ELSE t.Universe
         IN  SteamPrefix \o FormatUint(ToU64(uni)) \o <<":">>
                 \o FormatUint(Widen(Half(t.AccountID))) \o <<":">>
                 \o FormatUint(ToU64(t.AccountID[1] % 2))

\* Steam that never writes universe Public as 0
SteamKeepUniverse(t, format) ==
    IF t.AccountType # AccountTypeIndividual THEN <<>>
    ELSE SteamPrefix \o FormatUint(ToU64(t.Universe)) \o <<":">>
             \o FormatUint(ToU64(t.AccountID[1] % 2)) \o <<":">>
             \o FormatUint(Widen(Half(t.AccountID)))

\* Steam that renders every AccountType
SteamAnyType(t, format) ==
    LET uni == IF ~format /\ t.Universe = 1 THEN 0 ELSE t.Universe
    IN  SteamPrefix \o FormatUint(ToU64(uni)) \o <<":">>
            \o FormatUint(ToU64(t.AccountID[1] % 2)) \o <<":">>
            \o FormatUint(Widen(Half(t.AccountID)))

Steam(t, format) ==
    IF t.AccountType # AccountTypeIndividual THEN <<>>
    ELSE LET uni == IF ~format /\ t.Universe = 1 THEN 0 ELSE t.Universe
         IN  SteamPrefix \o FormatUint(ToU64(uni)) \o <<":">>
                 \o FormatUint(ToU64(t.AccountID[1] % 2)) \o <<":">>
                 \o FormatUint(Widen(Half(t.AccountID)))

\* Steam3 that tests the Lobby bit before the ClanMask bit
Steam3LobbyFirst(t) ==
    LET char == IF BitAnd(t.Instance, Lobby) > 0 THEN <<"L">>
                ELSE IF BitAnd(t.Instance, ClanMask) > 0 THEN <<"c">>
                ELSE Letter(t.AccountType)
        doInstance == \/ t.AccountType = AccountTypeAnonGameServer
                      \/ t.AccountType = AccountTypeMultiSeat
                      \/ (t.AccountType = AccountTypeIndividual
                          /\ t.Instance # InstanceDesktop)
        head == <<"[">> \o char \o <<":">> \o FormatUint(ToU64(t.Universe))
                    \o <<":">> \o FormatUint(Widen(t.AccountID))
    IN  IF ~doInstance THEN head \o <<"]">>
        ELSE head \o <<":">> \o FormatUint(ToU64(t.Instance)) \o <<"]">>

Steam3(t) ==
    LET char == IF BitAnd(t.Instance, ClanMask) > 0 THEN <<"c">>
                ELSE IF BitAnd(t.Instance, Lobby) > 0 THEN <<"L">>
                ELSE Letter(t.AccountType)
        doInstance == \/ t.AccountType = AccountTypeAnonGameServer
                      \/ t.AccountType = AccountTypeMultiSeat
                      \/ (t.AccountType = AccountTypeIndividual
                          /\ t.Instance # InstanceDesktop)
        head == <<"[">> \o char \o <<":">> \o FormatUint(ToU64(t.Universe))
                    \o <<":">> \o FormatUint(Widen(t.AccountID))
    IN  IF ~doInstance THEN head \o <<"]">>
        ELSE head \o <<":">> \o FormatUint(ToU64(t.Instance)) \o <<"]">>

----------------------------------------------------------------------------
(* Inputs                                                                  *)

\* account ids 0..MaxSmall are among the sampled account ids and account halves
MaxSmall == 2

NoNum == [neg |-> FALSE, mag |-> Zero64]

NoInput == [type |-> "none", str |-> <<>>, val |-> NoNum]

\* an argument of New: a Go string, or a Go integer of the named type
StrIn(s) == [type |-> "string", str |-> s, val |-> NoNum]

IntIn(ty, n, m) == [type |-> ty, str |-> <<>>, val |-> [neg |-> n, mag |-> m]]

\* strconv.ParseInt(s, 10, 64): an optional sign and digits, an error for
\* anything else and for a value outside -2^63..2^63-1
ParseInt(s) ==
    LET signed == Len(s) > 0 /\ s[1] \in {"+", "-"}
        un == ParseUint(IF signed THEN Tail(s) ELSE s)
        cutoff == <<0, 0, 0, Radix \div 2>>
        neg == signed /\ s[1] = "-"
    IN  IF ~un.ok THEN [ok |-> FALSE, val |-> NoNum]
        ELSE IF ~neg /\ ~Lt64(un.val, cutoff) THEN [ok |-> FALSE, val |-> NoNum]
        ELSE IF neg /\ Lt64(cutoff, un.val) THEN [ok |-> FALSE, val |-> NoNum]
        ELSE [ok |-> TRUE, val |-> [neg |-> neg /\ un.val # Zero64, mag |-> un.val]]

\* the zero value SteamID{}
ZeroSteamID == SteamID(<<0, 0>>, 0, 0, 0)

\* SID64FromString that returns whatever New gives
SID64FromStringUnchecked(steamID) ==
    LET i == ParseInt(steamID)
    IN  IF steamID = <<>> THEN [sid |-> ZeroSteamID, err |-> "ErrEmptyString"]
        ELSE IF ~i.ok THEN [sid |-> ZeroSteamID, err |-> "ErrSIDConvertInt64"]
        ELSE [sid |-> New(IntIn("int64", i.val.neg, i.val.mag)), err |-> "nil"]

\* SID64FromString(steamID): the SteamID and the error returned
SID64FromString(steamID) ==
    LET i == ParseInt(steamID)
        sid64 == New(IntIn("int64", i.val.neg, i.val.mag))
    IN  IF steamID = <<>> THEN [sid |-> ZeroSteamID, err |-> "ErrEmptyString"]
        ELSE IF ~i.ok THEN [sid |-> ZeroSteamID, err |-> "ErrSIDConvertInt64"]
        ELSE IF ~Valid(sid64) THEN [sid |-> ZeroSteamID, err |-> "ErrInvalidSID"]
        ELSE [sid |-> sid64, err |-> "nil"]

\* t.MarshalJSON(): the bytes returned, the error being nil
MarshalJSON(t) == <<"\"">> \o String(t) \o <<"\"">>

\* json.Unmarshal(data, &sidInput) for sidInput of type any: a JSON string
\* gives a Go string, a JSON number a float64, null, true and false give
\* nil or a bool, and anything else here is no JSON.  Escape sequences are
\* left out: data holds no backslash.
JSONDecode(data) ==
    LET n == Len(data)
        inner == SubSeq(data, 2, n - 1)
        digits == IF n > 0 /\ data[1] = "-" THEN Tail(data) ELSE data
    IN  IF n >= 2 /\ data[1] = "\"" /\ data[n] = "\""
           /\ \A k \in 1..Len(inner) : inner[k] \notin {"\"", "\\", "\n", "\r", "\t"}
        THEN [kind |-> "string", str |-> inner]
        ELSE IF AllDigits(digits) /\ digits # <<>> /\ (Len(digits) = 1 \/ digits[1] # "0")
        THEN [kind |-> "float64", str |-> <<>>]
        ELSE IF data \in {<<"n", "u", "l", "l">>, <<"t", "r", "u", "e">>, <<"f", "a", "l", "s", "e">>}
        THEN [kind |-> "other", str |-> <<>>]
        ELSE [kind |-> "error", str |-> <<>>]

\* t.UnmarshalJSON(data): the receiver afterwards and the error returned.
\* The case int64 of the type switch is never taken, a decoded number being
\* a float64.
UnmarshalJSON(t, data) ==
    LET sidInput == JSONDecode(data)
        outputSid == New(StrIn(sidInput.str))
    IN  IF sidInput.kind = "error" THEN [t |-> t, err |-> "ErrDecodeSID"]
        ELSE IF sidInput.kind = "string"
        THEN IF ~Valid(outputSid) THEN [t |-> t, err |-> "ErrUnmarshalStringSID"]
             ELSE [t |-> outputSid, err |-> "nil"]
        ELSE [t |-> t, err |-> "ErrInvalidSID"]

\* the sampled AccountID values (uint32)
AccountSamples ==
    {<<k, 0>> : k \in 0..MaxSmall}
        \cup {<<0, 1>>, <<52218, 2629>>, <<0, 32768>>, <<65535, 65535>>}

\* the account ids that are written in every input form
FormAccounts ==
    (AccountSamples \ {<<0, 0>>}) \cup {<<65535, 0>>, <<7526, 1293>>, <<65535, 32767>>}

UniverseSamples == {0, 1, 2, 4, 5, 128, 255}

AccountTypeSamples == (0..11) \cup {15}

InstanceSamples == (0..4) \cup {Lobby, ClanMask, InstanceMask}

\* the digit strings used as the account half of a Steam2 text
HalfTexts ==
    {FormatUint(ToU64(k)) : k \in 0..MaxSmall}
        \cup {<<"0", "0", "7">>,
             <<"8", "6", "1", "7", "3", "1", "8", "1">>,
             <<"2", "1", "4", "7", "4", "8", "3", "6", "4", "7">>,
             <<"2", "1", "4", "7", "4", "8", "3", "6", "4", "8">>,
             <<"4", "2", "9", "4", "9", "6", "7", "2", "9", "5">>,
             <<"4", "2", "9", "4", "9", "6", "7", "2", "9", "6">>,
             <<"9", "2", "2", "3", "3", "7", "2", "0", "3", "6", "8", "5", "4", "7", "7", "5", "8", "0", "8">>,
             <<"1", "8", "4", "4", "6", "7", "4", "4", "0", "7", "3", "7", "0", "9", "5", "5", "1", "6", "1", "5">>,
             <<"1", "8", "4", "4", "6", "7", "4", "4", "0", "7", "3", "7", "0", "9", "5", "5", "1", "6", "1", "6">>}

Steam2Text(u, x, h) == SteamPrefix \o <<DigitChars[u + 1], ":", DigitChars[x + 1], ":">> \o h

Steam2Inputs == {StrIn(Steam2Text(u, x, h)) : u \in 0..5, x \in 0..1, h \in HalfTexts}

Steam3Inputs ==
    {StrIn(s) : s \in
        {<<"[", "U", ":", "1", ":", "5", "]">>,
         <<"[", "U", ":", "0", ":", "5", "]">>,
         <<"[", "U", ":", "5", ":", "5", "]">>,
         <<"[", "A", ":", "1", ":", "7", "2", "9", "3", "7", "2", "6", "7", "2", ":", "1", "0", "3", "7", "2", "]">>,
         <<"[", "U", ":", "1", ":", "5", ":", "0", "]">>,
         <<"[", "U", ":", "1", ":", "5", ":", "4", "]">>,
         <<"[", "M", ":", "1", ":", "5", ":", "2", "]">>,
         <<"[", "G", ":", "1", ":", "5", "]">>,
         <<"[", "P", ":", "1", ":", "5", "]">>,
         <<"[", "C", ":", "1", ":", "5", "]">>,
         <<"[", "g", ":", "1", ":", "5", "]">>,
         <<"[", "T", ":", "1", ":", "5", "]">>,
         <<"[", "a", ":", "1", ":", "5", "]">>,
         <<"[", "I", ":", "1", ":", "5", "]">>,
         <<"[", "i", ":", "1", ":", "5", "]">>,
         <<"[", "c", ":", "1", ":", "5", "]">>,
         <<"[", "L", ":", "1", ":", "5", "]">>,
         <<"[", "W", ":", "1", ":", "5", "]">>,
         <<"[", "x", ":", "1", ":", "5", "]">>,
         <<"[", "g", ":", "1", ":", "0", "]">>,
         <<"[", "U", ":", "1", ":", "4", "2", "9", "4", "9", "6", "7", "2", "9", "5", "]">>,
         <<"[", "U", ":", "1", ":", "4", "2", "9", "4", "9", "6", "7", "2", "9", "6", "]">>,
         <<"[", "U", ":", "1", ":", "1", "8", "4", "4", "6", "7", "4", "4", "0", "7", "3", "7", "0", "9", "5", "5", "1", "6", "1", "6", "]">>}}

DecimalInputs ==
    {StrIn(s) : s \in
        {<<"1", "7", "2", "3", "4", "6", "3", "6", "2">>,
         <<"1">>,
         <<"7">>,
         <<"4", "2", "9", "4", "9", "6", "7", "2", "9", "5">>,
         <<"4", "2", "9", "4", "9", "6", "7", "2", "9", "6">>,
         <<"7", "6", "5", "6", "1", "1", "9", "7", "9", "6", "0", "2", "6", "5", "7", "2", "7">>,
         <<"7", "6", "5", "6", "1", "1", "9", "7", "9", "6", "0", "2", "6", "5", "7", "2", "8">>,
         <<"7", "6", "5", "6", "1", "1", "9", "3", "6", "6", "5", "2", "9", "8", "4", "3", "7">>,
         <<"1", "0", "3", "5", "8", "2", "7", "9", "1", "4", "4", "1", "5", "7", "2", "9", "6", "8">>,
         <<"9", "0", "1", "1", "6", "5", "4", "0", "6", "7", "7", "5", "7", "6", "7", "0", "4">>,
         <<"9", "2", "2", "3", "3", "7", "2", "0", "3", "6", "8", "5", "4", "7", "7", "5", "8", "0", "7">>,
         <<"9", "2", "2", "3", "3", "7", "2", "0", "3", "6", "8", "5", "4", "7", "7", "5", "8", "0", "8">>,
         <<"1", "8", "4", "4", "6", "7", "4", "4", "0", "7", "3", "7", "0", "9", "5", "5", "1", "6", "1", "5">>,
         <<"0", "0", "7", "6", "5", "6", "1", "1", "9", "8", "1", "3", "2", "6", "1", "2", "0", "9", "0">>}}

\* texts that are no Steam2 text, no Steam3 text and no positive decimal integer
JunkTexts ==
    {<<>>, <<"0">>} \cup
        {<<"a", "s", "d", "f">>,
         <<"0", "0">>,
         <<"0", "0", "0">>,
         <<"-", "5">>,
         <<"+", "5">>,
         <<"5", " ">>,
         <<"1", "e", "3">>,
         <<"S", "T", "E", "A", "M", "_", "6", ":", "0", ":", "1">>,
         <<"S", "T", "E", "A", "M", "_", "0", ":", "2", ":", "1">>,
         <<"S", "T", "E", "A", "M", "_", "0", ":", "0", ":">>,
         <<"s", "t", "e", "a", "m", "_", "0", ":", "0", ":", "5">>,
         <<"S", "T", "E", "A", "M", "_", "0", ":", "0", ":", "5", "x">>,
         <<"S", "T", "E", "A", "M", "_", "0", ":", "0", ":", "5", ":", "1">>,
         <<"[", "U", ":", "1", ":", "5">>,
         <<"U", ":", "1", ":", "5", "]">>,
         <<"U", ":", "1", ":", "5">>,
         <<"[", "U", ":", "6", ":", "5", "]">>,
         <<"[", "1", ":", "1", ":", "5", "]">>,
         <<"[", "U", ":", "1", ":", "5", ":", "]">>,
         <<"[", "U", ":", "1", ":", "]">>,
         <<"[", "U", ":", "1", ":", "5", ":", "1", ":", "2", "]">>,
         <<"9", "9", "9", "9", "9", "9", "9", "9", "9", "9", "9", "9", "9", "9", "9", "9", "9", "9", "9", "9">>,
         <<"1", "8", "4", "4", "6", "7", "4", "4", "0", "7", "3", "7", "0", "9", "5", "5", "1", "6", "1", "6">>}

\* a value of a Go type New has no case for
OtherInputs == {[type |-> "float64", str |-> <<>>, val |-> [neg |-> FALSE, mag |-> ToU64(5)]],
                [type |-> "uint32", str |-> <<>>, val |-> [neg |-> FALSE, mag |-> ToU64(5)]]}

\* the ways to write account id a as an argument of New
FormsOf(a) ==
    LET w == Widen(a)
        packed == Add64(BaseSID, w)
    IN  {IntIn("int", FALSE, w), IntIn("int64", FALSE, w),
         StrIn(Steam2Text(0, a[1] % 2, FormatUint(Widen(Half(a))))),
         StrIn(<<"[", "U", ":", "1", ":">> \o FormatUint(w) \o <<"]">>),
         IntIn("int", FALSE, packed), IntIn("uint64", FALSE, packed),
         StrIn(FormatUint(packed))}
        \cup (IF a[2] < Radix \div 2 THEN {IntIn("int32", FALSE, w)} ELSE {})

IntegerInputs ==
    {IntIn(ty, FALSE, Zero64) : ty \in IntTypes \cup {"uint64"}}
        \cup {IntIn(ty, TRUE, ToU64(5)) : ty \in IntTypes}
        \cup {IntIn("int64", TRUE, BaseSID), IntIn("uint64", FALSE, <<65535, 65535, 65535, 65535>>),
              IntIn("uint64", FALSE, <<0, 0, 1, 0>>), IntIn("int", FALSE, <<58472, 183, 0, 368>>)}

Inputs ==
    UNION {FormsOf(a) : a \in FormAccounts} \cup Steam2Inputs \cup Steam3Inputs
        \cup DecimalInputs \cup {StrIn(s) : s \in JunkTexts} \cup OtherInputs
        \cup IntegerInputs

----------------------------------------------------------------------------
(* The state machine: a caller that builds one SteamID value, from a       *)
(* struct literal or with New, and then renders, validates and re-parses   *)
(* it.                                                                     *)

Init ==
    /\ sid = invalidSID
    /\ input = NoInput
    /\ text = <<>>
    /\ form = "none"
    /\ orig = invalidSID
    /\ num = NoNum
    /\ valid = FALSE
    /\ op = "init"
    /\ body = <<>>
    /\ ids = <<>>
    /\ idType = "none"
    /\ output = <<>>
    /\ err = "nil"
    /\ status = <<>>
    /\ full = FALSE
    /\ parsed = [panic |-> FALSE, err |-> "nil", s |-> <<>>]
    /\ recv = invalidSID
    /\ idGen = Zero64
    /\ calls = <<>>
    /\ returned = <<>>

\* sid := SteamID{AccountID: a, Instance: i, AccountType: t, Universe: u}
Literal ==
    /\ op = "init"
    /\ UNCHANGED <<extraVars, recv, randVars>>
    /\ \E a \in AccountSamples, i \in InstanceSamples,
          t \in AccountTypeSamples, u \in UniverseSamples :
        /\ sid' = SteamID(a, i, t, u)
        /\ input' = NoInput
        /\ text' = <<>>
        /\ form' = "none"
        /\ orig' = invalidSID
        /\ num' = NoNum
        /\ valid' = FALSE
        /\ op' = "Literal"

\* sid := New(in)
NewInput ==
    /\ op = "init"
    /\ UNCHANGED <<extraVars, recv, randVars>>
    /\ \E in \in Inputs :
        /\ sid' = New(in)
        /\ input' = in
        /\ text' = <<>>
        /\ form' = "none"
        /\ orig' = invalidSID
        /\ num' = NoNum
        /\ valid' = FALSE
        /\ op' = "New"

\* text := sid.String()
StringOp ==
    /\ op \in {"Literal", "New"}
    /\ UNCHANGED <<extraVars, recv, randVars>>
    /\ text' = String(sid)
    /\ form' = "String"
    /\ orig' = sid
    /\ input' = NoInput
    /\ num' = NoNum
    /\ valid' = FALSE
    /\ op' = "String"
    /\ UNCHANGED sid

\* num := sid.Int64()
Int64Op ==
    /\ op \in {"Literal", "New"}
    /\ UNCHANGED <<extraVars, recv, randVars>>
    /\ num' = Int64(sid)
    /\ form' = "Int64"
    /\ orig' = sid
    /\ input' = NoInput
    /\ text' = <<>>
    /\ valid' = FALSE
    /\ op' = "Int64"
    /\ UNCHANGED sid

\* text := sid.Steam(format)
SteamOp ==
    /\ op \in {"Literal", "New"}
    /\ UNCHANGED <<extraVars, recv, randVars>>
    /\ \E format \in BOOLEAN :
        /\ text' = Steam(sid, format)
        /\ form' = IF format THEN "SteamTrue" ELSE "SteamFalse"
        /\ orig' = sid
        /\ input' = NoInput
        /\ num' = NoNum
        /\ valid' = FALSE
        /\ op' = "Steam"
        /\ UNCHANGED sid

\* text := sid.Steam3()
Steam3Op ==
    /\ op \in {"Literal", "New"}
    /\ UNCHANGED <<extraVars, recv, randVars>>
    /\ text' = Steam3(sid)
    /\ form' = "Steam3"
    /\ orig' = sid
    /\ input' = NoInput
    /\ num' = NoNum
    /\ valid' = FALSE
    /\ op' = "Steam3"
    /\ UNCHANGED sid

\* valid := sid.Valid()
ValidOp ==
    /\ op \in {"Literal", "New"}
    /\ UNCHANGED <<extraVars, recv, randVars>>
    /\ valid' = Valid(sid)
    /\ form' = "none"
    /\ orig' = sid
    /\ input' = NoInput
    /\ text' = <<>>
    /\ num' = NoNum
    /\ op' = "Valid"
    /\ UNCHANGED sid

\* sid := New(text), the text being the last rendering
NewText ==
    /\ op \in {"String", "Steam", "Steam3"}
    /\ UNCHANGED <<extraVars, recv, randVars>>
    /\ input' = StrIn(text)
    /\ sid' = New(StrIn(text))
    /\ op' = "NewText"
    /\ UNCHANGED <<text, form, orig, num, valid>>

\* sid := New(num), the number being the last Int64()
NewInt64 ==
    /\ op = "Int64"
    /\ UNCHANGED <<extraVars, recv, randVars>>
    /\ input' = [type |-> "int64", str |-> <<>>, val |-> num]
    /\ sid' = New([type |-> "int64", str |-> <<>>, val |-> num])
    /\ op' = "NewInt64"
    /\ UNCHANGED <<text, form, orig, num, valid>>

\* valid := sid.Equal(New(in)), the second SteamID being kept in orig
EqualOp ==
    /\ op = "New"
    /\ UNCHANGED <<extraVars, recv, randVars>>
    /\ \E in \in Inputs :
        /\ orig' = New(in)
        /\ valid' = Equal(sid, New(in))
        /\ input' = NoInput
        /\ text' = <<>>
        /\ form' = "none"
        /\ num' = NoNum
        /\ op' = "Equal"
        /\ UNCHANGED sid

\* texts handed to SID64FromString besides the texts handed to New
SignedTexts ==
    {<<"+", "7", "6", "5", "6", "1", "1", "9", "8", "1", "3", "2", "6", "1", "2", "0", "9", "0">>, <<"-", "7", "6", "5", "6", "1", "1", "9", "8", "1", "3", "2", "6", "1", "2", "0", "9", "0">>, <<"+", "0">>, <<"-", "0">>, <<"+">>, <<"-">>,
     <<"-", "9", "2", "2", "3", "3", "7", "2", "0", "3", "6", "8", "5", "4", "7", "7", "5", "8", "0", "8">>, <<"-", "9", "2", "2", "3", "3", "7", "2", "0", "3", "6", "8", "5", "4", "7", "7", "5", "8", "0", "9">>, <<"7", "6", "5", "6", "1", "1", "9", "7", "9", "6", "0", "2", "6", "5", "7", "2", "8">>,
     <<"7", "6", "5", "6", "1", "1", "9", "3", "6", "6", "5", "3", "6", "3", "9", "6", "8">>, <<"7", "6", "5", "6", "1", "1", "9", "8", "1", "3", "2", "6", "1", "2", "0", "9", "0">>}

\* sid, err := SID64FromString(steamID)
SID64FromStringOp ==
    /\ op = "init"
    /\ \E steamID \in SignedTexts \cup {in.str : in \in {x \in Inputs : x.type = "string"}} :
        /\ input' = StrIn(steamID)
        /\ sid' = SID64FromString(steamID).sid
        /\ err' = SID64FromString(steamID).err
        /\ op' = "SID64FromString"
    /\ UNCHANGED <<text, form, orig, num, valid, recv, randVars,
                   body, ids, idType, output, statusVars>>

\* text, _ := sid.MarshalJSON()
MarshalJSONOp ==
    /\ op \in {"Literal", "New"}
    /\ text' = MarshalJSON(sid)
    /\ orig' = sid
    /\ op' = "MarshalJSON"
    /\ UNCHANGED <<sid, input, form, num, valid, recv, randVars, extraVars>>

\* receivers of UnmarshalJSON: the zero value and a valid SteamID
Receivers == {ZeroSteamID, SteamID(<<7, 0>>, InstanceDesktop, AccountTypeIndividual, UniversePublic)}

\* data handed to UnmarshalJSON besides the bytes MarshalJSON returns
JSONInputs ==
    {<<"\"", "7", "6", "5", "6", "1", "1", "9", "7", "9", "7", "0", "6", "6", "9", "1", "0", "9", "\"">>, <<"\"", "1", "0", "3", "5", "8", "2", "7", "9", "1", "4", "4", "1", "5", "7", "2", "9", "6", "8", "\"">>, <<"\"", "[", "U", ":", "1", ":", "5", "]", "\"">>,
     <<"\"", "S", "T", "E", "A", "M", "_", "0", ":", "1", ":", "2", "\"">>, <<"\"", "5", "\"">>, <<"\"", "\"">>, <<"\"", "0", "\"">>, <<"\"", "a", "s", "d", "f", "\"">>, <<"\"", "[", "U", ":", "1", ":", "0", "]", "\"">>,
     <<"\"", "-", "5", "\"">>, <<"7", "6", "5", "6", "1", "1", "9", "7", "9", "7", "0", "6", "6", "9", "1", "0", "9">>, <<"5">>, <<"-", "5">>, <<"n", "u", "l", "l">>, <<"t", "r", "u", "e">>,
     <<"\"", "5">>, <<"a", "s", "d", "f">>, <<>>}

\* sid := recv; err := sid.UnmarshalJSON(text), the text being the bytes
\* MarshalJSON returned or other data
UnmarshalJSONOp ==
    /\ op \in {"init", "MarshalJSON"}
    /\ \E r \in Receivers, d \in (IF op = "MarshalJSON" THEN {text} ELSE JSONInputs) :
        /\ recv' = r
        /\ text' = d
        /\ sid' = UnmarshalJSON(r, d).t
        /\ err' = UnmarshalJSON(r, d).err
        /\ op' = "UnmarshalJSON"
    /\ UNCHANGED <<input, form, orig, num, valid, randVars,
                   body, ids, idType, output, statusVars>>

Next ==
    \/ Literal
    \/ NewInput
    \/ StringOp
    \/ Int64Op
    \/ SteamOp
    \/ Steam3Op
    \/ ValidOp
    \/ NewText
    \/ NewInt64
    \/ EqualOp
    \/ SID64FromStringOp
    \/ MarshalJSONOp
    \/ UnmarshalJSONOp

Spec == Init /\ [][Next]_vars

----------------------------------------------------------------------------
(* Package extra: the scanner of free text                                 *)

\* the line limit of a bufio.Scanner made by bufio.NewScanner
MaxScanTokenSize == 64 * 1024

\* one element of a text that stands for MaxScanTokenSize zero bytes in a row
NoiseRun == "NUL*65536"

\* the number of bytes of the text s
RECURSIVE ByteLen(_)
ByteLen(s) ==
    IF s = <<>> THEN 0
    ELSE (IF Head(s) = NoiseRun THEN MaxScanTokenSize ELSE 1) + ByteLen(Tail(s))

\* the first index at or after i where s holds c, 0 when there is none
RECURSIVE IndexFrom(_, _, _)
IndexFrom(s, c, i) ==
    IF i > Len(s) THEN 0
    ELSE IF s[i] = c THEN i
    ELSE IndexFrom(s, c, i + 1)

\* bufio.ScanLines drops one trailing carriage return
DropCR(line) ==
    IF Len(line) > 0 /\ line[Len(line)] = "\r" THEN SubSeq(line, 1, Len(line) - 1)
    ELSE line

\* the lines scanner.Scan() yields for the text s: the text is cut at each
\* newline, a last line needs no newline, and the scanner stops for good at
\* a line of MaxScanTokenSize bytes or more
RECURSIVE ScanLines(_)
ScanLines(s) ==
    IF s = <<>> THEN <<>>
    ELSE LET p == IndexFrom(s, "\n", 1)
             line == IF p = 0 THEN s ELSE SubSeq(s, 1, p - 1)
         IN  IF ByteLen(line) >= MaxScanTokenSize THEN <<>>
             ELSE IF p = 0 THEN <<DropCR(line)>>
             ELSE <<DropCR(line)>> \o ScanLines(SubSeq(s, p + 1, Len(s)))

\* s holds the text p at index i
HasAt(s, i, p) == i + Len(p) - 1 <= Len(s) /\ SubSeq(s, i, i + Len(p) - 1) = p

\* the number of digits in a row in s from index j on, max at most
RECURSIVE DigitRun(_, _, _)
DigitRun(s, j, max) ==
    IF max = 0 \/ j > Len(s) \/ s[j] \notin Digits THEN 0
    ELSE 1 + DigitRun(s, j + 1, max - 1)

\* freSID, STEAM_0:[01]:[0-9][0-9]{0,8}: the last index of its match at
\* index i of s, 0 when it does not match there
freSID(s, i) ==
    IF /\ HasAt(s, i, SteamPrefix \o <<"0", ":">>)
       /\ i + 10 <= Len(s)
       /\ s[i + 8] \in {"0", "1"}
       /\ s[i + 9] = ":"
       /\ s[i + 10] \in Digits
    THEN i + 10 + DigitRun(s, i + 11, 8)
    ELSE 0

\* freSID64, 7656119\d{10}
freSID64(s, i) ==
    IF HasAt(s, i, <<"7", "6", "5", "6", "1", "1", "9">>) /\ DigitRun(s, i + 7, 10) = 10
    THEN i + 16
    ELSE 0

\* freSID3, \[U:1:\d+]
freSID3(s, i) ==
    LET n == DigitRun(s, i + 5, Len(s))
    IN  IF /\ HasAt(s, i, <<"[", "U", ":", "1", ":">>)
           /\ n > 0
           /\ i + 5 + n <= Len(s)
           /\ s[i + 5 + n] = "]"
        THEN i + 5 + n
        ELSE 0

ScanPattern(kind, s, i) ==
    CASE kind = "freSID" -> freSID(s, i)
      [] kind = "freSID64" -> freSID64(s, i)
      [] kind = "freSID3" -> freSID3(s, i)

\* the first and last index of each match of a pattern in s from index i on,
\* from left to right, each search starting after the match before
RECURSIVE FindAllIndex(_, _, _)
FindAllIndex(kind, s, i) ==
    IF i > Len(s) THEN <<>>
    ELSE LET e == ScanPattern(kind, s, i)
         IN  IF e > 0 THEN <<(<<i, e>>)>> \o FindAllIndex(kind, s, e + 1)
             ELSE FindAllIndex(kind, s, i + 1)

\* FindAllStringSubmatch(line, -1): the texts of the matches
FindAll(kind, s, i) ==
    LET at == FindAllIndex(kind, s, i)
    IN  [k \in 1..Len(at) |-> SubSeq(s, at[k][1], at[k][2])]

\* the SteamIDs appended to found for the matches ms: those that are Valid()
RECURSIVE AppendValid(_)
AppendValid(ms) ==
    IF ms = <<>> THEN <<>>
    ELSE LET id == New(StrIn(Head(ms)))
         IN  (IF Valid(id) THEN <<id>> ELSE <<>>) \o AppendValid(Tail(ms))

\* the matches of one line in the order of the scan loop: the matches of
\* line in their order in freSID, freSID64, freSID3
LineMatches(line) ==
    FindAll("freSID", line, 1) \o FindAll("freSID64", line, 1) \o FindAll("freSID3", line, 1)

\* FoundIn that searches the three patterns in the order freSID3, freSID,
\* freSID64
RECURSIVE FoundInSteam3First(_)
FoundInSteam3First(lines) ==
    IF lines = <<>> THEN <<>>
    ELSE AppendValid(FindAll("freSID3", Head(lines), 1) \o FindAll("freSID", Head(lines), 1)
                        \o FindAll("freSID64", Head(lines), 1))
            \o FoundInSteam3First(Tail(lines))

\* the first loop: found takes, line by line, the valid SteamIDs of the line
RECURSIVE FoundIn(_)
FoundIn(lines) ==
    IF lines = <<>> THEN <<>>
    ELSE AppendValid(LineMatches(Head(lines))) \o FoundIn(Tail(lines))

\* the second loop: uniq takes each found SteamID whose Int64() it does not
\* hold yet
RECURSIVE Uniq(_, _)
Uniq(uniq, found) ==
    IF found = <<>> THEN uniq
    ELSE IF \E k \in 1..Len(uniq) : Int64(Head(found)) = Int64(uniq[k])
    THEN Uniq(uniq, Tail(found))
    ELSE Uniq(Append(uniq, Head(found)), Tail(found))

\* FindReaderSteamIDs that keeps every found SteamID
FindReaderSteamIDsNoUniq(reader) == FoundIn(ScanLines(reader))

FindReaderSteamIDs(reader) == Uniq(<<>>, FoundIn(ScanLines(reader)))

IDTypes == {"steam", "steam3", "steam32", "steam64"}

\* fmt.Sprintf(format, value), format being the text before and after its %s
Sprintf(format, value) == format.pre \o value \o format.post

\* the text ParseReader writes for the SteamIDs list
RECURSIVE WriteIDs(_, _, _)
WriteIDs(list, format, ty) ==
    IF list = <<>> THEN <<>>
    ELSE LET id == Head(list)
             value == CASE ty = "steam64" -> String(id)
                        [] ty = "steam3" -> Steam3(id)
                        [] ty = "steam32" -> FormatUint(Widen(id.AccountID))
                        [] ty = "steam" -> Steam(id, FALSE)
         IN  Sprintf(format, value) \o WriteIDs(Tail(list), format, ty)

\* ParseReader: the text that reaches the output and the error returned.
\* Each value is written and flushed in turn; with an output whose Write
\* fails the first Flush fails (a value is far shorter than the buffer of
\* the bufio.Writer, so WriteString itself succeeds).
ParseReader(reader, writable, format, ty) ==
    IF ty \notin IDTypes THEN [output |-> <<>>, err |-> "ErrIDType"]
    ELSE IF ~writable /\ FindReaderSteamIDs(reader) # <<>>
    THEN [output |-> <<>>, err |-> "ErrFlush"]
    ELSE [output |-> WriteIDs(FindReaderSteamIDs(reader), format, ty), err |-> "nil"]

\* the number of lines of a sampled text is at most MaxLines
MaxLines == 2

TestParseInputBody ==
    <<"#", " ", "u", "s", "e", "r", "i", "d", " ", "n", "a", "m", "e", " ", " ", " ", " ", " ", " ", " ", " ", " ", " ", " ", " ", " ", " ", " ", " ", "u", "n", "i", "q", "u", "e", "i", "d", " ", " ", " ", " ", " ", " ", " ", " ", " ", " ", " ", " ", "c", "o", "n", "n", "e", "c", "t", "e", "d", " ", "p", "i", "n", "g", " ", "l", "o", "s", "s", " ", "s", "t", "a", "t", "e", "\n", "#", " ", " ", " ", " ", " ", " ", "2", " ", "\"", "W", "o", "l", "f", "X", "i", "n", "e", "\"", " ", " ", " ", " ", " ", " ", " ", " ", " ", " ", "[", "U", ":", "1", ":", "1", "6", "6", "7", "7", "9", "3", "1", "8", "]", " ", " ", " ", " ", " ", "1", "5", ":", "2", "2", " ", " ", " ", " ", " ", " ", " ", "8", "5", " ", " ", " ", " ", "0", " ", "a", "c", "t", "i", "v", "e", "\n", "#", " ", " ", " ", " ", " ", " ", "3", " ", "\"", "m", "d", "a", "n", "i", "e", "l", "s", "5", "7", "4", "6", "\"", " ", " ", " ", " ", " ", " ", "[", "U", ":", "1", ":", "3", "6", "1", "8", "2", "1", "2", "8", "8", "]", " ", " ", " ", " ", " ", "1", "5", ":", "2", "2", " ", " ", " ", " ", " ", " ", " ", "8", "7", " ", " ", " ", " ", "0", " ", "a", "c", "t", "i", "v", "e", "\n", "#", " ", " ", " ", " ", " ", "2", "8", " ", "\"", "K", "R", "G", "o", "n", "z", "a", "l", "e", "s", "\"", " ", " ", " ", " ", " ", " ", " ", " ", "[", "U", ":", "1", ":", "8", "7", "5", "6", "2", "0", "7", "6", "7", "]", " ", " ", " ", " ", " ", "0", "0", ":", "2", "9", " ", " ", " ", " ", " ", " ", " ", "7", "6", " ", " ", " ", "1", "0", " ", "a", "c", "t", "i", "v", "e", "\n", "#", " ", " ", " ", " ", " ", " ", "4", " ", "\"", "j", "u", "a", "n", ".", "m", "a", "r", "t", "i", "n", "e", "z", "2", "0", "0", "9", "\"", " ", "[", "U", ":", "1", ":", "7", "9", "0", "0", "2", "5", "1", "8", "]", " ", " ", " ", " ", " ", " ", "1", "5", ":", "2", "2", " ", " ", " ", " ", " ", " ", " ", "7", "2", " ", " ", " ", " ", "0", " ", "a", "c", "t", "i", "v", "e", "\n", "[", "U", ":", "1", ":", "1", "7", "2", "3", "4", "6", "3", "6", "2", "]", "S", "T", "E", "A", "M", "_", "0", ":", "0", ":", "8", "6", "1", "7", "3", "1", "8", "2", "[", "U", ":", "1", ":", "1", "7", "2", "3", "4", "6", "3", "4", "2", "]", "\n", "S", "T", "E", "A", "M", "_", "0", ":", "0", ":", "8", "6", "1", "7", "3", "1", "8", "1", "\n", "7", "6", "5", "6", "1", "1", "9", "8", "1", "3", "2", "6", "1", "2", "0", "9", "0", "\n", "\n", "7", "6", "5", "6", "1", "1", "9", "8", "0", "8", "4", "1", "3", "4", "0", "2", "5", "\n">>

\* the block of six literals, the bracketed forms next to their neighbours
LiteralBlock ==
    <<"[", "U", ":", "1", ":", "1", "7", "2", "3", "4", "6", "3", "6", "2", "]", "S", "T", "E", "A", "M", "_", "0", ":", "0", ":", "8", "6", "1", "7", "3", "1", "8", "2", "[", "U", ":", "1", ":", "1", "7", "2", "3", "4", "6", "3", "4", "2", "]", "\n", "S", "T", "E", "A", "M", "_", "0", ":", "0", ":", "8", "6", "1", "7", "3", "1", "8", "1", "\n", "7", "6", "5", "6", "1", "1", "9", "8", "1", "3", "2", "6", "1", "2", "0", "9", "0", "\n", "7", "6", "5", "6", "1", "1", "9", "8", "0", "8", "4", "1", "3", "4", "0", "2", "5", "\n">>

\* the same block with whitespace after and before the bracketed forms
LiteralBlockSpaced ==
    <<"[", "U", ":", "1", ":", "1", "7", "2", "3", "4", "6", "3", "6", "2", "]", " ", " ", "S", "T", "E", "A", "M", "_", "0", ":", "0", ":", "8", "6", "1", "7", "3", "1", "8", "2", "\t", "[", "U", ":", "1", ":", "1", "7", "2", "3", "4", "6", "3", "4", "2", "]", "\n", "S", "T", "E", "A", "M", "_", "0", ":", "0", ":", "8", "6", "1", "7", "3", "1", "8", "1", "\n", "7", "6", "5", "6", "1", "1", "9", "8", "1", "3", "2", "6", "1", "2", "0", "9", "0", "\n", "7", "6", "5", "6", "1", "1", "9", "8", "0", "8", "4", "1", "3", "4", "0", "2", "5", "\n">>

\* lines a sampled text is made of
LineSamples ==
    {<<"[", "U", ":", "1", ":", "1", "7", "2", "3", "4", "6", "3", "6", "2", "]", "S", "T", "E", "A", "M", "_", "0", ":", "0", ":", "8", "6", "1", "7", "3", "1", "8", "2", "[", "U", ":", "1", ":", "1", "7", "2", "3", "4", "6", "3", "4", "2", "]">>,
     <<"S", "T", "E", "A", "M", "_", "0", ":", "0", ":", "8", "6", "1", "7", "3", "1", "8", "1">>,
     <<"7", "6", "5", "6", "1", "1", "9", "8", "1", "3", "2", "6", "1", "2", "0", "9", "0">>,
     <<" ", "7", "6", "5", "6", "1", "1", "9", "8", "0", "8", "4", "1", "3", "4", "0", "2", "5", " ", "[", "U", ":", "1", ":", "0", "]", " ", "S", "T", "E", "A", "M", "_", "0", ":", "0", ":", "0", "\r">>,
     <<"7", "6", "5", "6", "1", "1", "9", "0", "0", "0", "0", "0", "0", "0", "0", "0", "0", " ", "[", "U", ":", "1", ":", "5", "]">>,
     <<"S", "T", "E", "A", "M", "_", "0", ":", "1", ":", "8", "6", "1", "7", "3", "1", "8", "1", "7", "6", "5", "6", "1", "1", "9", "8", "1", "3", "2", "6", "1", "2", "0", "9", "0">>,
     <<"[", "U", ":", "1", ":", "1", "8", "4", "4", "6", "7", "4", "4", "0", "7", "3", "7", "0", "9", "5", "5", "1", "6", "1", "6", "]", " ", "S", "T", "E", "A", "M", "_", "1", ":", "0", ":", "5", " ", "[", "U", ":", "2", ":", "5", "]">>,
     <<"[", "U", ":", "1", ":", "5", "]", "[", "U", ":", "1", ":", "7", "]", " ", "S", "T", "E", "A", "M", "_", "0", ":", "1", ":", "2", " ", "[", "U", ":", "1", ":", "7", "]">>,
     <<>>,
     <<"x", NoiseRun>>}

\* the texts of n lines, each line ended by a newline
RECURSIVE TextsOf(_)
TextsOf(n) ==
    IF n = 0 THEN {<<>>}
    ELSE {l \o <<"\n">> \o t : l \in LineSamples, t \in TextsOf(n - 1)}

\* account ids whose SteamID is rendered and scanned: 1, 7, 172346362,
\* 1999999999, 2000000000, 2039734271, 2039734272 and 4294967295
RenderAccounts ==
    {<<1, 0>>, <<7, 0>>, <<52218, 2629>>, <<37887, 30517>>, <<37888, 30517>>,
     <<57343, 31123>>, <<57344, 31123>>, <<MaxLimb, MaxLimb>>}

\* the Individual of the public universe with Instance Desktop and account id a
DesktopUser(a) == SteamID(a, InstanceDesktop, AccountTypeIndividual, UniversePublic)

\* the texts that consist of one rendering of one SteamID
RenderedBodies ==
    UNION {{Steam(DesktopUser(a), FALSE), Steam3(DesktopUser(a)), String(DesktopUser(a))} :
              a \in RenderAccounts}

Bodies ==
    UNION {TextsOf(n) : n \in 0..MaxLines}
        \cup {l \o <<"\n">> \o m : l \in LineSamples, m \in LineSamples \ {<<>>}}
        \cup {TestParseInputBody, LiteralBlock, LiteralBlockSpaced}
        \cup RenderedBodies

Formats == {[pre |-> <<"-">>, post |-> <<"-", "\n">>]}

\* ids := FindReaderSteamIDs(strings.NewReader(body))
FindReaderSteamIDsOp ==
    /\ op = "init"
    /\ \E b \in Bodies :
        /\ body' = b
        /\ ids' = FindReaderSteamIDs(b)
        /\ idType' = "none"
        /\ output' = <<>>
        /\ err' = "nil"
        /\ op' = "FindReaderSteamIDs"
    /\ UNCHANGED <<codecVars, recv, randVars, statusVars>>

\* err := ParseReader(strings.NewReader(body), &output, format, idType),
\* the output being a buffer or a writer whose Write fails
ParseReaderOp ==
    /\ op = "init"
    /\ \E b \in Bodies, w \in BOOLEAN, f \in Formats, ty \in IDTypes \cup {"steam128"} :
        /\ body' = b
        /\ ids' = <<>>
        /\ idType' = ty
        /\ output' = ParseReader(b, w, f, ty).output
        /\ err' = ParseReader(b, w, f, ty).err
        /\ op' = "ParseReader"
    /\ UNCHANGED <<codecVars, recv, randVars, statusVars>>

----------------------------------------------------------------------------
(* Package extra: regular expressions of the status parser                 *)

\* \s of Go's regexp
Spaces == {"\t", "\n", "\f", "\r", " "}

\* A pattern is a sequence of items; it is anchored at both ends.  An item
\* is a literal text, or a character class with a quantifier ("1" for
\* exactly one, "+" for one or more and as many as possible, "+?" for one or
\* more and as few as possible).  open and close are the capture groups that
\* start before the item and end after it.
Cls(set, q) ==
    [t |-> "chr", chars |-> <<>>, set |-> set, any |-> FALSE, q |-> q, open |-> {}, close |-> {}]

\* the dot: any character but a newline
Dot(q) ==
    [t |-> "chr", chars |-> <<>>, set |-> {}, any |-> TRUE, q |-> q, open |-> {}, close |-> {}]

Lit(chars) ==
    [t |-> "lit", chars |-> chars, set |-> {}, any |-> FALSE, q |-> "1", open |-> {}, close |-> {}]

\* capture group n holding the items of inner
Group(n, inner) ==
    [k \in 1..Len(inner) |->
        [inner[k] EXCEPT !.open = IF k = 1 THEN @ \cup {n} ELSE @,
                         !.close = IF k = Len(inner) THEN @ \cup {n} ELSE @]]

Accepts(item, c) == IF item.any THEN c # "\n" ELSE c \in item.set

\* the number of characters in a row that item accepts in s from index i on,
\* looked for among the next w characters first and then among twice as many
RECURSIVE RunWithin(_, _, _, _)
RunWithin(item, s, i, w) ==
    LET last == IF i + w - 1 < Len(s) THEN i + w - 1 ELSE Len(s)
        stops == {j \in i..last : ~Accepts(item, s[j])}
    IN  IF stops # {} THEN (CHOOSE j \in stops : \A h \in stops : j <= h) - i
        ELSE IF last = Len(s) THEN Len(s) + 1 - i
        ELSE RunWithin(item, s, i, 2 * w)

\* the number of characters in a row that item accepts in s from index i on
RunOf(item, s, i) == RunWithin(item, s, i, 8)

\* the numbers of characters item can take in s at index i
Lens(item, s, i) ==
    IF item.t = "lit" THEN (IF HasAt(s, i, item.chars) THEN {Len(item.chars)} ELSE {})
    ELSE IF item.q = "1" THEN (IF i <= Len(s) /\ Accepts(item, s[i]) THEN {1} ELSE {})
    ELSE 1..RunOf(item, s, i)

\* reach[k] is the set of indexes of s at which item k of p can start after
\* the items before it have matched from index 1; reach[Len(p) + 1] is where
\* the pattern can end
RECURSIVE ReachTable(_, _, _)
ReachTable(p, s, reach) ==
    IF Len(reach) = Len(p) + 1 THEN reach
    ELSE LET k == Len(reach)
         IN  ReachTable(p, s,
                 Append(reach, UNION {{i + n : n \in Lens(p[k], s, i)} : i \in reach[k]}))

\* live, for the items k + 1.. of p, the indexes of reach from which the rest
\* of the pattern matches to the end of s; the table is completed down to
\* item 1
RECURSIVE LiveTable(_, _, _, _, _)
LiveTable(p, s, reach, k, live) ==
    IF k = 0 THEN live
    ELSE LiveTable(p, s, reach, k - 1,
             <<{i \in reach[k] : \E n \in Lens(p[k], s, i) : i + n \in live[1]}>> \o live)

\* The match of pattern p against the whole of s, as the index at which each
\* item starts (and, last, the index after the match).  At each item, of the
\* numbers of characters after which the rest of the pattern still matches,
\* a "+" takes the largest and a "+?" the smallest: the first alternative a
\* backtracking search finds.
RECURSIVE CutsFrom(_, _, _, _)
CutsFrom(p, s, live, cuts) ==
    IF Len(cuts) = Len(p) + 1 THEN cuts
    ELSE LET k == Len(cuts)
             i == cuts[k]
             good == {n \in Lens(p[k], s, i) : i + n \in live[k + 1]}
             n == IF p[k].q = "+" THEN CHOOSE x \in good : \A y \in good : y <= x
                  ELSE CHOOSE x \in good : \A y \in good : x <= y
         IN  CutsFrom(p, s, live, Append(cuts, i + n))

\* p.FindStringSubmatch(s) for a pattern of groups capture groups: <<>> is
\* the nil match, otherwise the whole match and the text of each group
FindStringSubmatch(p, groups, s) ==
    LET reach == ReachTable(p, s, <<{1}>>)
        live == LiveTable(p, s, reach, Len(p), <<reach[Len(p) + 1] \cap {Len(s) + 1}>>)
        cuts == CutsFrom(p, s, live, <<1>>)
        Opened(g) == CHOOSE k \in 1..Len(p) : g \in p[k].open
        Closed(g) == CHOOSE k \in 1..Len(p) : g \in p[k].close
    IN  IF 1 \notin live[1] THEN <<>>
        ELSE <<s>> \o [g \in 1..groups |-> SubSeq(s, cuts[Opened(g)], cuts[Closed(g) + 1] - 1)]

\* the start of both player row patterns: ^#\s+(\d+)\s+"(.+?)"\s+(\[U:\d:\d+])\s+
RowHead ==
    <<Lit(<<"#">>), Cls(Spaces, "+")>> \o Group(1, <<Cls(Digits, "+")>>)
        \o <<Cls(Spaces, "+")>> \o <<Lit(<<"\"">>)>> \o Group(2, <<Dot("+?")>>) \o <<Lit(<<"\"">>)>>
        \o <<Cls(Spaces, "+")>>
        \o Group(3, <<Lit(<<"[", "U", ":">>), Cls(Digits, "1"), Lit(<<":">>),
                          Cls(Digits, "+"), Lit(<<"]">>)>>)
        \o <<Cls(Spaces, "+")>>

\* ^#\s+(\d+)\s+"(.+?)"\s+(\[U:\d:\d+])\s+(.+?)\s+(\d+)\s+(\d+)\s+(.+?)\s(.+?):(.+?)$
reStatusPlayerFull ==
    RowHead \o Group(4, <<Dot("+?")>>) \o <<Cls(Spaces, "+")>>
        \o Group(5, <<Cls(Digits, "+")>>) \o <<Cls(Spaces, "+")>>
        \o Group(6, <<Cls(Digits, "+")>>) \o <<Cls(Spaces, "+")>>
        \o Group(7, <<Dot("+?")>>) \o <<Cls(Spaces, "1")>>
        \o Group(8, <<Dot("+?")>>) \o <<Lit(<<":">>)>> \o Group(9, <<Dot("+?")>>)

\* ^#\s+(\d+)\s+"(.+?)"\s+(\[U:\d:\d+])\s+(\d+:\d+)\s+(\d+)\s+(\d+)\s+(.+?)$
reStatusPlayer ==
    RowHead \o Group(4, <<Cls(Digits, "+")>> \o <<Lit(<<":">>)>> \o <<Cls(Digits, "+")>>)
        \o <<Cls(Spaces, "+")>>
        \o Group(5, <<Cls(Digits, "+")>>) \o <<Cls(Spaces, "+")>>
        \o Group(6, <<Cls(Digits, "+")>>) \o <<Cls(Spaces, "+")>>
        \o Group(7, <<Dot("+?")>>)

\* \d+\.\d+\.\d+\.\d+
DottedQuad ==
    <<Cls(Digits, "+")>> \o <<Lit(<<".">>)>> \o <<Cls(Digits, "+")>> \o <<Lit(<<".">>)>>
        \o <<Cls(Digits, "+")>> \o <<Lit(<<".">>)>> \o <<Cls(Digits, "+")>>

\* ^(\d+\.\d+\.\d+\.\d+):(\d+)\s+\(public ip:(\s+\d+\.\d+\.\d+\.\d+)\)$
rxIP ==
    Group(1, DottedQuad) \o <<Lit(<<":">>)>> \o Group(2, <<Cls(Digits, "+")>>)
        \o <<Cls(Spaces, "+")>> \o <<Lit(<<"(", "p", "u", "b", "l", "i", "c", " ", "i", "p", ":">>)>>
        \o Group(3, <<Cls(Spaces, "+")>> \o DottedQuad) \o <<Lit(<<")">>)>>

\* ^(\d+\.\d+\.\d+\.\d+):(\d+)\s+\(local:\s+(\d+\.\d+\.\d+\.\d+):(\d+)\)\s+
\*  \(public IP from Steam:\s+(\d+\.\d+\.\d+\.\d+)\)$
rxIPSDR ==
    Group(1, DottedQuad) \o <<Lit(<<":">>)>> \o Group(2, <<Cls(Digits, "+")>>)
        \o <<Cls(Spaces, "+")>> \o <<Lit(<<"(", "l", "o", "c", "a", "l", ":">>)>>
        \o <<Cls(Spaces, "+")>> \o Group(3, DottedQuad) \o <<Lit(<<":">>)>>
        \o Group(4, <<Cls(Digits, "+")>>) \o <<Lit(<<")">>)>> \o <<Cls(Spaces, "+")>>
        \o <<Lit(<<"(", "p", "u", "b", "l", "i", "c", " ", "I", "P", " ", "f", "r", "o", "m", " ", "S", "t", "e", "a", "m", ":">>)>>
        \o <<Cls(Spaces, "+")>> \o Group(5, DottedQuad) \o <<Lit(<<")">>)>>

\* ^(\d+\.\d+\.\d+\.\d+):(\d+).+?(\d+\.\d+\.\d+\.\d+):(\d+)\)$
rxSourceTV ==
    Group(1, DottedQuad) \o <<Lit(<<":">>)>> \o Group(2, <<Cls(Digits, "+")>>)
        \o <<Dot("+?")>> \o Group(3, DottedQuad) \o <<Lit(<<":">>)>>
        \o Group(4, <<Cls(Digits, "+")>>) \o <<Lit(<<")">>)>>

----------------------------------------------------------------------------
(* Package extra: the parser of the status command's output                *)

\* the least and the greatest member of a non-empty set of integers
Least(set) == CHOOSE j \in set : \A h \in set : j <= h

Greatest(set) == CHOOSE j \in set : \A h \in set : h <= j

\* strings.Split(s, sep) for a separator sep of one character
Split(s, sep) ==
    LET at == {j \in 1..Len(s) : s[j] = sep}
        Cut(k) == IF k = 0 THEN 0
                  ELSE IF k > Cardinality(at) THEN Len(s) + 1
                  ELSE CHOOSE j \in at : Cardinality({h \in at : h < j}) = k - 1
    IN  [k \in 1..(Cardinality(at) + 1) |-> SubSeq(s, Cut(k - 1) + 1, Cut(k) - 1)]

\* strings.SplitN(s, sep, 2) for a separator sep of one character
SplitN(s, sep) ==
    LET at == {j \in 1..Len(s) : s[j] = sep}
    IN  IF at = {} THEN <<s>>
        ELSE <<SubSeq(s, 1, Least(at) - 1), SubSeq(s, Least(at) + 1, Len(s))>>

\* strings.TrimSpace(s)
TrimSpace(s) ==
    LET keep == {j \in 1..Len(s) : s[j] \notin Spaces}
    IN  IF keep = {} THEN <<>> ELSE SubSeq(s, Least(keep), Greatest(keep))

\* strings.TrimRight(s, " ")
TrimRight(s) ==
    LET keep == {j \in 1..Len(s) : s[j] # " "}
    IN  IF keep = {} THEN <<>> ELSE SubSeq(s, 1, Greatest(keep))

\* strings.ReplaceAll(s, "(", "")
ReplaceAll(s) ==
    LET Kept(c) == c # "("
    IN  SelectSeq(s, Kept)

\* a small non-negative number as a Go int
GoInt(n) == ToInt64(ToU64(n))

\* the Go int -1
MinusOne == [neg |-> TRUE, mag |-> <<1, 0, 0, 0>>]

\* v > 0 for a Go int
Positive(v) == ~v.neg /\ v.mag # Zero64

\* the Go int 1<<63 - 1
MaxInt == [neg |-> FALSE, mag |-> <<MaxLimb, MaxLimb, MaxLimb, (Radix \div 2) - 1>>]

\* strconv.Atoi(s) for a text of digits, its error dropped: the value, or
\* MaxInt for a value past it
Atoi(s) ==
    LET m == ParseUint(s)
    IN  IF m.ok /\ m.val[4] < Radix \div 2 THEN ToInt64(m.val) ELSE MaxInt

\* x * m modulo 2^64 for a small factor m
Mul64(x, m) ==
    LET c1 == x[1] * m
        c2 == x[2] * m + (c1 \div Radix)
        c3 == x[3] * m + (c2 \div Radix)
        c4 == x[4] * m + (c3 \div Radix)
    IN  <<c1 % Radix, c2 % Radix, c3 % Radix, c4 % Radix>>

\* the zero value of IPInfo
NoIPInfo ==
    [SDR |-> FALSE, FakeIP |-> <<>>, FakePort |-> GoInt(0), LocalIP |-> <<>>,
     LocalPort |-> GoInt(0), PublicIP |-> <<>>, PublicPort |-> GoInt(0),
     SourceTVIP |-> <<>>, SourceTVFPort |-> GoInt(0), SourceTVLocalIP |-> <<>>,
     SourceTVLocalPort |-> GoInt(0)]

\* the zero value of Status; a nil slice is the empty sequence
NoStatus ==
    [PlayersCount |-> GoInt(0), PlayersMax |-> GoInt(0), ServerName |-> <<>>,
     Version |-> <<>>, Edicts |-> <<>>, Tags |-> <<>>, Map |-> <<>>, Players |-> <<>>,
     IPInfo |-> NoIPInfo]

\* parseMaxPlayers(part): the value returned, or a panic for ps[4] out of range
parseMaxPlayers(part) ==
    LET ps == Split(ReplaceAll(part), " ")
        m == ParseUint(ps[5])
    IN  IF Len(ps) < 5 THEN [panic |-> TRUE, val |-> MinusOne]
        ELSE IF ~m.ok THEN [panic |-> FALSE, val |-> MinusOne]
        ELSE [panic |-> FALSE, val |-> ToInt64(m.val)]

\* parseEdits(part): the two values returned, or a panic for ed[3] out of range
parseEdits(part) ==
    LET ed == Split(part, " ")
        l == ParseUint(ed[1])
        m == ParseUint(ed[4])
    IN  IF ~l.ok THEN [panic |-> FALSE, val |-> <<MinusOne, MinusOne>>]
        ELSE IF Len(ed) < 4 THEN [panic |-> TRUE, val |-> <<>>]
        ELSE IF ~m.ok THEN [panic |-> FALSE, val |-> <<MinusOne, MinusOne>>]
        ELSE [panic |-> FALSE, val |-> <<ToInt64(l.val), ToInt64(m.val)>>]

\* parseUDPIP(part, &info): the value of info afterwards
parseUDPIP(part, info) ==
    LET sdr == FindStringSubmatch(rxIPSDR, 5, part)
        plain == FindStringSubmatch(rxIP, 3, part)
    IN  IF sdr # <<>>
        THEN [info EXCEPT !.FakeIP = sdr[2], !.FakePort = Atoi(sdr[3]),
                          !.LocalIP = sdr[4], !.LocalPort = Atoi(sdr[5]),
                          !.PublicIP = sdr[6],
                          !.SDR = HasAt(sdr[2], 1, <<"1", "6", "9", ".", "2", "5", "4">>)]
        ELSE IF plain # <<>>
        THEN [info EXCEPT !.PublicIP = plain[2], !.PublicPort = Atoi(plain[3])]
        ELSE info

\* parseSourceTV(part, &info): the value of info afterwards
parseSourceTV(part, info) ==
    LET matches == FindStringSubmatch(rxSourceTV, 4, part)
    IN  IF matches # <<>>
        THEN [info EXCEPT !.SourceTVIP = matches[2], !.SourceTVFPort = Atoi(matches[3]),
                          !.SourceTVLocalIP = matches[4],
                          !.SourceTVLocalPort = Atoi(matches[5])]
        ELSE info

\* One step of ParseStatus is the outcome so far: a panic, an error returned
\* with the empty Status, or the Status s built up to here.
Going(s) == [panic |-> FALSE, err |-> "nil", s |-> s]

Failed(name) == [panic |-> FALSE, err |-> name, s |-> NoStatus]

Panicked == [panic |-> TRUE, err |-> "nil", s |-> NoStatus]

\* the switch of ParseStatus with a default case that stores the content of a
\* line with an unknown key as the server name
HeaderLineDefaultName(s, key, content) ==
    CASE key = <<"u", "d", "p", "/", "i", "p">> -> Going([s EXCEPT !.IPInfo = parseUDPIP(content, @)])
      [] key = <<"s", "o", "u", "r", "c", "e", "t", "v">> -> Going([s EXCEPT !.IPInfo = parseSourceTV(content, @)])
      [] key = <<"h", "o", "s", "t", "n", "a", "m", "e">> -> Going([s EXCEPT !.ServerName = content])
      [] key = <<"v", "e", "r", "s", "i", "o", "n">> -> Going([s EXCEPT !.Version = content])
      [] key = <<"m", "a", "p">> -> Going([s EXCEPT !.Map = Split(content, " ")[1]])
      [] key = <<"t", "a", "g", "s">> -> Going([s EXCEPT !.Tags = Split(content, ",")])
      [] key = <<"p", "l", "a", "y", "e", "r", "s">> ->
            LET maxPlayers == parseMaxPlayers(content)
            IN  IF maxPlayers.panic THEN Panicked
                ELSE IF Positive(maxPlayers.val)
                THEN Going([s EXCEPT !.PlayersMax = maxPlayers.val])
                ELSE Going(s)
      [] key = <<"e", "d", "i", "c", "t", "s">> ->
            LET ed == parseEdits(content)
            IN  IF ed.panic THEN Panicked
                ELSE IF Positive(ed.val[1]) /\ Positive(ed.val[2])
                THEN Going([s EXCEPT !.Edicts = ed.val])
                ELSE Going(s)
      [] OTHER -> Going([s EXCEPT !.ServerName = content])

\* the switch on the text before the first colon of a line without "#"
HeaderLine(s, key, content) ==
    CASE key = <<"u", "d", "p", "/", "i", "p">> -> Going([s EXCEPT !.IPInfo = parseUDPIP(content, @)])
      [] key = <<"s", "o", "u", "r", "c", "e", "t", "v">> -> Going([s EXCEPT !.IPInfo = parseSourceTV(content, @)])
      [] key = <<"h", "o", "s", "t", "n", "a", "m", "e">> -> Going([s EXCEPT !.ServerName = content])
      [] key = <<"v", "e", "r", "s", "i", "o", "n">> -> Going([s EXCEPT !.Version = content])
      [] key = <<"m", "a", "p">> -> Going([s EXCEPT !.Map = Split(content, " ")[1]])
      [] key = <<"t", "a", "g", "s">> -> Going([s EXCEPT !.Tags = Split(content, ",")])
      [] key = <<"p", "l", "a", "y", "e", "r", "s">> ->
            LET maxPlayers == parseMaxPlayers(content)
            IN  IF maxPlayers.panic THEN Panicked
                ELSE IF Positive(maxPlayers.val)
                THEN Going([s EXCEPT !.PlayersMax = maxPlayers.val])
                ELSE Going(s)
      [] key = <<"e", "d", "i", "c", "t", "s">> ->
            LET ed == parseEdits(content)
            IN  IF ed.panic THEN Panicked
                ELSE IF Positive(ed.val[1]) /\ Positive(ed.val[2])
                THEN Going([s EXCEPT !.Edicts = ed.val])
                ELSE Going(s)
      [] OTHER -> Going(s)

\* the weights []int{1, 60, 3600} of the parts of a connected time
TimeWeights == <<1, 60, 3600>>

\* the longest time.Duration in whole seconds, (1<<63 - 1) / 1e9 = 9223372036
MaxDurationSeconds == <<32004, 9665, 2, 0>>

\* The loop over the parts tp of a connected time, last part first: the
\* outcome "seconds" when a part is not an unsigned integer, "panic" when a
\* fourth part indexes past the weights, else the total, an int that wraps.
ConnectedSeconds(tp) ==
    LET rev == [i \in 1..Len(tp) |-> tp[Len(tp) + 1 - i]]
        bad == {i \in 1..Len(tp) : ~ParseUint(rev[i]).ok}
        Part(i) == IF i <= Len(tp) THEN Mul64(ParseUint(rev[i]).val, TimeWeights[i])
                   ELSE Zero64
    IN  IF \E i \in bad : i <= Len(TimeWeights) + 1 THEN [out |-> "seconds", totalSec |-> GoInt(0)]
        ELSE IF Len(tp) > Len(TimeWeights) THEN [out |-> "panic", totalSec |-> GoInt(0)]
        ELSE [out |-> "ok", totalSec |-> ToInt64(Add64(Add64(Part(1), Part(2)), Part(3)))]

\* net.ParseIP(s) is not nil.  Capture group 8 of reStatusPlayerFull holds a
\* colon at most as its first character, so that only the dotted form of
\* four decimal fields, none above 255 and none with a leading zero, is an
\* address here.
ParseIP(s) ==
    LET fields == Split(s, ".")
    IN  /\ Len(fields) = 4
        /\ \A k \in 1..4 :
            /\ Len(fields[k]) \in 1..3
            /\ AllDigits(fields[k])
            /\ Len(fields[k]) > 1 => fields[k][1] # "0"
            /\ ParseUint(fields[k]).val[1] <= 255

\* the body of ParseStatus for a line that began with "#" and matched as m
PlayerRow(s, m, isFull) ==
    LET userID == ParseUint(m[2])
        ping == ParseUint(m[6])
        loss == ParseUint(m[7])
        secs == ConnectedSeconds(Split(m[5], ":"))
        port == ParseUint(m[10])
        p == [UserID |-> ToInt64(userID.val), Name |-> m[3], SID |-> New(StrIn(m[4])),
              ConnectedTime |-> secs.totalSec, Ping |-> ToInt64(ping.val),
              Loss |-> ToInt64(loss.val), State |-> m[8],
              IP |-> IF isFull THEN m[9] ELSE <<>>,
              Port |-> IF isFull THEN ToInt64(port.val) ELSE GoInt(0)]
    IN  IF ~userID.ok THEN Failed("ErrParseUserID")
        ELSE IF ~ping.ok THEN Failed("ErrParsePing")
        ELSE IF ~loss.ok THEN Failed("ErrParseLoss")
        ELSE IF secs.out = "seconds" THEN Failed("ErrParseSeconds")
        ELSE IF secs.out = "panic" THEN Panicked
        ELSE IF Lt64(MaxDurationSeconds, secs.totalSec.mag) THEN Failed("ErrParseDuration")
        ELSE IF isFull /\ ~port.ok THEN Failed("ErrParsePort")
        ELSE IF isFull /\ ~ParseIP(m[9]) THEN Failed("ErrParseIP")
        ELSE Going([s EXCEPT !.Players = Append(@, p)])

\* one turn of the loop of ParseStatus over the lines
StatusLine(s, line, isFull) ==
    IF ~HasAt(line, 1, <<"#">>)
    THEN LET parts == SplitN(line, ":")
         IN  IF Len(parts) = 2
             THEN HeaderLine(s, TrimRight(parts[1]), TrimSpace(parts[2]))
             ELSE Going(s)
    ELSE LET m == IF isFull THEN FindStringSubmatch(reStatusPlayerFull, 9, line)
                  ELSE FindStringSubmatch(reStatusPlayer, 7, line)
         IN  IF m # <<>> THEN PlayerRow(s, m, isFull) ELSE Going(s)

RECURSIVE StatusLines(_, _, _, _)
StatusLines(lines, k, isFull, sofar) ==
    IF k > Len(lines) \/ sofar.panic \/ sofar.err # "nil" THEN sofar
    ELSE StatusLines(lines, k + 1, isFull, StatusLine(sofar.s, lines[k], isFull))

\* ParseStatus(status, full): a panic, or the Status and the error returned
ParseStatus(st, isFull) ==
    LET done == StatusLines(Split(st, "\n"), 1, isFull, Going(NoStatus))
    IN  IF done.panic \/ done.err # "nil" THEN done
        ELSE Going([done.s EXCEPT !.PlayersCount = GoInt(Len(done.s.Players))])

\* statusText of TestParseStatus
TestStatusText ==
    <<"h", "o", "s", "t", "n", "a", "m", "e", ":", " ", "U", "n", "c", "l", "e", "t", "o", "p", "i", "a", " ", "|", " ", "U", "S", " ", "W", "e", "s", "t", " ", "2", "\n", "v", "e", "r", "s", "i", "o", "n", " ", ":", " ", "5", "9", "7", "0", "2", "1", "4", "/", "2", "4", " ", "5", "9", "7", "0", "2", "1", "4", " ", "s", "e", "c", "u", "r", "e", "\n", "u", "d", "p", "/", "i", "p", " ", " ", ":", " ", "2", "3", ".", "2", "3", "9", ".", "2", "2", ".", "1", "6", "3", ":", "2", "7", "0", "1", "5", " ", " ", "(", "p", "u", "b", "l", "i", "c", " ", "i", "p", ":", " ", "2", "3", ".", "2", "3", "9", ".", "2", "2", ".", "1", "6", "3", ")", "\n", "s", "t", "e", "a", "m", "i", "d", " ", ":", " ", "[", "G", ":", "1", ":", "3", "4", "1", "4", "3", "5", "6", "]", " ", "(", "8", "5", "5", "6", "8", "3", "9", "2", "9", "2", "3", "4", "5", "3", "7", "8", "0", ")", "\n", "a", "c", "c", "o", "u", "n", "t", " ", ":", " ", "n", "o", "t", " ", "l", "o", "g", "g", "e", "d", " ", "i", "n", " ", " ", "(", "N", "o", " ", "a", "c", "c", "o", "u", "n", "t", " ", "s", "p", "e", "c", "i", "f", "i", "e", "d", ")", "\n", "m", "a", "p", " ", " ", " ", " ", " ", ":", " ", "p", "l", "_", "g", "o", "l", "d", "r", "u", "s", "h", " ", "a", "t", ":", " ", "0", " ", "x", ",", " ", "0", " ", "y", ",", " ", "0", " ", "z", "\n", "t", "a", "g", "s", " ", " ", " ", " ", ":", " ", "U", "n", "c", "l", "e", "t", "o", "p", "i", "a", ",", "n", "o", "c", "r", "i", "t", "s", ",", "n", "o", "d", "m", "g", "s", "p", "r", "e", "a", "d", ",", "p", "a", "y", "l", "o", "a", "d", "\n", "s", "o", "u", "r", "c", "e", "t", "v", ":", " ", " ", "1", "0", "8", ".", "1", "8", "1", ".", "6", "2", ".", "2", "1", ":", "2", "7", "0", "1", "5", ",", " ", "d", "e", "l", "a", "y", " ", "0", ".", "0", "s", " ", " ", "(", "l", "o", "c", "a", "l", ":", " ", "1", "0", "8", ".", "1", "8", "1", ".", "6", "2", ".", "2", "1", ":", "2", "7", "0", "1", "6", ")", "\n", "p", "l", "a", "y", "e", "r", "s", " ", ":", " ", "1", "1", " ", "h", "u", "m", "a", "n", "s", ",", " ", "0", " ", "b", "o", "t", "s", " ", "(", "3", "2", " ", "m", "a", "x", ")", "\n", "e", "d", "i", "c", "t", "s", " ", " ", ":", " ", "1", "7", "1", "7", " ", "u", "s", "e", "d", " ", "o", "f", " ", "2", "0", "4", "8", " ", "m", "a", "x", "\n", "#", " ", "u", "s", "e", "r", "i", "d", " ", "n", "a", "m", "e", " ", " ", " ", " ", " ", " ", " ", " ", " ", " ", " ", " ", " ", " ", " ", " ", "u", "n", "i", "q", "u", "e", "i", "d", " ", " ", " ", " ", " ", " ", " ", " ", " ", " ", " ", " ", "c", "o", "n", "n", "e", "c", "t", "e", "d", " ", "p", "i", "n", "g", " ", "l", "o", "s", "s", " ", "s", "t", "a", "t", "e", " ", " ", "a", "d", "r", "\n", "#", " ", " ", " ", "4", "2", "4", "7", " ", "\"", "D", "u", "l", "a", "h", "a", "n", "\"", " ", " ", " ", " ", " ", " ", " ", " ", " ", " ", " ", "[", "U", ":", "1", ":", "1", "4", "8", "8", "8", "3", "2", "8", "0", "]", " ", " ", " ", " ", " ", "5", "5", ":", "0", "9", " ", " ", " ", " ", " ", " ", " ", "7", "4", " ", " ", " ", " ", "0", " ", "a", "c", "t", "i", "v", "e", " ", "1", ".", "2", ".", "6", "4", ".", "8", "4", ":", "2", "7", "0", "0", "5", "\n", "#", " ", " ", " ", "4", "2", "3", "5", " ", "\"", "N", "o", "x", "\"", " ", " ", " ", " ", " ", " ", " ", " ", " ", " ", " ", " ", " ", " ", " ", "[", "U", ":", "1", ":", "1", "8", "6", "1", "3", "4", "6", "8", "6", "]", " ", " ", " ", " ", " ", " ", "1", ":", "2", "1", ":", "1", "8", " ", " ", " ", "1", "2", "3", " ", " ", " ", " ", "0", " ", "a", "c", "t", "i", "v", "e", " ", "1", ".", "2", ".", "2", "1", "2", ".", "9", "8", ":", "2", "7", "0", "0", "5", "\n", "#", " ", " ", " ", "4", "2", "6", "2", " ", "\"", "G", "e", "o", "r", "g", "e", " ", "S", "c", "r", "u", "m", "p", "u", "s", "\"", " ", " ", " ", "[", "U", ":", "1", ":", "6", "4", "2", "7", "4", "8", "8", "6", "]", " ", " ", " ", " ", " ", " ", "1", "7", ":", "0", "9", " ", " ", " ", " ", " ", " ", "1", "1", "8", " ", " ", " ", " ", "0", " ", "a", "c", "t", "i", "v", "e", " ", "1", ".", "2", ".", "1", "2", "1", ".", "6", "8", ":", "2", "7", "0", "0", "5", "\n", "#", " ", " ", " ", "4", "2", "5", "4", " ", "\"", "a", "i", "r", "b", "u", "d", "\"", " ", " ", " ", " ", " ", " ", " ", " ", " ", " ", " ", " ", "[", "U", ":", "1", ":", "1", "9", "0", "1", "6", "3", "0", "3", "5", "]", " ", " ", " ", " ", " ", "3", "8", ":", "4", "9", " ", " ", " ", " ", " ", " ", " ", "7", "2", " ", " ", " ", " ", "0", " ", "a", "c", "t", "i", "v", "e", " ", "1", ".", "2", ".", "2", "4", "6", ".", "2", "3", "8", ":", "2", "7", "0", "0", "5", "\n", "#", " ", " ", " ", "4", "2", "5", "6", " ", "\"", "K", "e", "n", "s", "e", "i", "\"", " ", " ", " ", " ", " ", " ", " ", " ", " ", " ", " ", " ", "[", "U", ":", "1", ":", "1", "1", "9", "8", "5", "1", "8", "6", "9", "]", " ", " ", " ", " ", " ", "3", "6", ":", "3", "3", " ", " ", " ", " ", " ", " ", " ", "5", "3", " ", " ", " ", " ", "0", " ", "a", "c", "t", "i", "v", "e", " ", "1", ".", "2", ".", "1", "1", "0", ".", "6", "6", ":", "2", "7", "0", "0", "5", "\n", "#", " ", " ", " ", "4", "2", "6", "8", " ", "\"", "P", "r", "o", "g", "s", "e", "e", "k", "s", "\"", " ", " ", " ", " ", " ", " ", " ", " ", " ", "[", "U", ":", "1", ":", "1", "9", "1", "3", "8", "0", "0", "2", "3", "]", " ", " ", " ", " ", " ", "0", "1", ":", "4", "3", " ", " ", " ", " ", " ", " ", "1", "0", "5", " ", " ", " ", " ", "0", " ", "a", "c", "t", "i", "v", "e", " ", "1", ".", "2", ".", "6", "7", ".", "7", "6", ":", "2", "7", "0", "0", "5", "\n", "#", " ", " ", " ", "4", "1", "8", "1", " ", "\"", "G", "e", "r", "a", "\"", " ", " ", " ", " ", " ", " ", " ", " ", " ", " ", " ", " ", " ", " ", "[", "U", ":", "1", ":", "2", "0", "2", "3", "2", "7", "9", "1", "2", "]", " ", " ", " ", " ", " ", " ", "2", ":", "3", "9", ":", "5", "7", " ", " ", " ", "1", "0", "4", " ", " ", " ", " ", "0", " ", "a", "c", "t", "i", "v", "e", " ", "1", ".", "2", ".", "6", "2", ".", "1", "0", "0", ":", "2", "7", "0", "0", "5", "\n", "#", " ", " ", " ", "4", "2", "7", "1", " ", "\"", "A", " ", "G", "o", "o", "d", " ", "I", "d", "e", "a", "\"", " ", " ", " ", " ", " ", " ", " ", "[", "U", ":", "1", ":", "4", "3", "1", "5", "6", "5", "9", "9", "7", "]", " ", " ", " ", " ", " ", "0", "0", ":", "4", "1", " ", " ", " ", " ", " ", " ", " ", "6", "8", " ", " ", " ", " ", "0", " ", "a", "c", "t", "i", "v", "e", " ", "1", ".", "2", ".", "1", "0", "4", ".", "2", "4", "7", ":", "2", "7", "0", "0", "5", "\n", "#", " ", " ", " ", "4", "2", "1", "2", " ", "\"", "C", "h", "a", "n", "c", "e", " ", "T", "h", "e", " ", "M", "e", "m", "e", "r", "\"", " ", " ", "[", "U", ":", "1", ":", "1", "0", "6", "8", "6", "4", "8", "7", "3", "]", " ", " ", " ", " ", " ", " ", "1", ":", "5", "1", ":", "5", "8", " ", " ", " ", "1", "0", "6", " ", " ", " ", " ", "0", " ", "a", "c", "t", "i", "v", "e", " ", "1", ".", "2", ".", "2", "1", "5", ".", "6", "2", ":", "2", "7", "0", "0", "5", "\n", "#", " ", " ", " ", "4", "2", "5", "9", " ", "\"", "G", "r", "e", "e", "n", "w", "o", "o", "d", " ", "R", "N", "\"", " ", " ", " ", " ", " ", " ", "[", "U", ":", "1", ":", "1", "2", "8", "3", "7", "5", "3", "3", "2", "]", " ", " ", " ", " ", " ", "2", "4", ":", "5", "1", " ", " ", " ", " ", " ", " ", " ", "6", "7", " ", " ", " ", " ", "0", " ", "a", "c", "t", "i", "v", "e", " ", "1", ".", "2", ".", "1", "3", "6", ".", "2", "4", "6", ":", "2", "7", "0", "0", "5", "\n", "#", " ", " ", " ", "4", "2", "4", "6", " ", "\"", "F", "r", "a", "n", "k", "\"", " ", " ", " ", " ", " ", " ", " ", " ", " ", " ", " ", " ", " ", "[", "U", ":", "1", ":", "1", "6", "6", "4", "1", "5", "7", "8", "3", "]", " ", " ", " ", " ", " ", " ", "1", ":", "0", "1", ":", "5", "9", " ", " ", " ", "1", "3", "3", " ", " ", " ", " ", "0", " ", "a", "c", "t", "i", "v", "e", " ", "1", ".", "2", ".", "2", "3", ".", "1", "9", "7", ":", "2", "7", "0", "0", "5", "\n">>

\* statusText of TestParseStatusSDR
TestStatusTextSDR ==
    <<"h", "o", "s", "t", "n", "a", "m", "e", ":", " ", "U", "n", "c", "l", "e", "t", "o", "p", "i", "a", " ", "|", " ", "U", "S", " ", "W", "e", "s", "t", " ", "2", "\n", "v", "e", "r", "s", "i", "o", "n", " ", ":", " ", "5", "9", "7", "0", "2", "1", "4", "/", "2", "4", " ", "5", "9", "7", "0", "2", "1", "4", " ", "s", "e", "c", "u", "r", "e", "\n", "u", "d", "p", "/", "i", "p", " ", " ", ":", " ", "1", "6", "9", ".", "2", "5", "4", ".", "1", "7", "6", ".", "1", "4", "1", ":", "1", "3", "1", "7", "6", " ", " ", "(", "l", "o", "c", "a", "l", ":", " ", "1", "9", "2", ".", "1", "6", "8", ".", "0", ".", "2", "0", "1", ":", "2", "7", "0", "1", "5", ")", " ", " ", "(", "p", "u", "b", "l", "i", "c", " ", "I", "P", " ", "f", "r", "o", "m", " ", "S", "t", "e", "a", "m", ":", " ", "1", ".", "2", "3", "3", ".", "3", "3", ".", "1", ")", "\n", "s", "t", "e", "a", "m", "i", "d", " ", ":", " ", "[", "G", ":", "1", ":", "3", "4", "1", "4", "3", "5", "6", "]", " ", "(", "8", "5", "5", "6", "8", "3", "9", "2", "9", "2", "3", "4", "5", "3", "7", "8", "0", ")", "\n", "a", "c", "c", "o", "u", "n", "t", " ", ":", " ", "n", "o", "t", " ", "l", "o", "g", "g", "e", "d", " ", "i", "n", " ", " ", "(", "N", "o", " ", "a", "c", "c", "o", "u", "n", "t", " ", "s", "p", "e", "c", "i", "f", "i", "e", "d", ")", "\n", "m", "a", "p", " ", " ", " ", " ", " ", ":", " ", "p", "l", "_", "g", "o", "l", "d", "r", "u", "s", "h", " ", "a", "t", ":", " ", "0", " ", "x", ",", " ", "0", " ", "y", ",", " ", "0", " ", "z", "\n", "t", "a", "g", "s", " ", " ", " ", " ", ":", " ", "U", "n", "c", "l", "e", "t", "o", "p", "i", "a", ",", "n", "o", "c", "r", "i", "t", "s", ",", "n", "o", "d", "m", "g", "s", "p", "r", "e", "a", "d", ",", "p", "a", "y", "l", "o", "a", "d", "\n", "s", "o", "u", "r", "c", "e", "t", "v", ":", " ", " ", "1", "6", "9", ".", "2", "5", "4", ".", "1", "7", "6", ".", "1", "4", "1", ":", "1", "3", "1", "7", "6", ",", " ", "d", "e", "l", "a", "y", " ", "0", ".", "0", "s", " ", " ", "(", "l", "o", "c", "a", "l", ":", " ", "1", "9", "2", ".", "1", "6", "8", ".", "0", ".", "2", "0", "1", ":", "2", "7", "0", "1", "6", ")", "\n", "p", "l", "a", "y", "e", "r", "s", " ", ":", " ", "1", "1", " ", "h", "u", "m", "a", "n", "s", ",", " ", "0", " ", "b", "o", "t", "s", " ", "(", "3", "2", " ", "m", "a", "x", ")", "\n", "e", "d", "i", "c", "t", "s", " ", " ", ":", " ", "1", "7", "1", "7", " ", "u", "s", "e", "d", " ", "o", "f", " ", "2", "0", "4", "8", " ", "m", "a", "x", "\n", "#", " ", "u", "s", "e", "r", "i", "d", " ", "n", "a", "m", "e", " ", " ", " ", " ", " ", " ", " ", " ", " ", " ", " ", " ", " ", " ", " ", " ", "u", "n", "i", "q", "u", "e", "i", "d", " ", " ", " ", " ", " ", " ", " ", " ", " ", " ", " ", " ", "c", "o", "n", "n", "e", "c", "t", "e", "d", " ", "p", "i", "n", "g", " ", "l", "o", "s", "s", " ", "s", "t", "a", "t", "e", " ", " ", "a", "d", "r", "\n", "#", " ", " ", " ", "4", "2", "4", "7", " ", "\"", "D", "u", "l", "a", "h", "a", "n", "\"", " ", " ", " ", " ", " ", " ", " ", " ", " ", " ", " ", "[", "U", ":", "1", ":", "1", "4", "8", "8", "8", "3", "2", "8", "0", "]", " ", " ", " ", " ", " ", "5", "5", ":", "0", "9", " ", " ", " ", " ", " ", " ", " ", "7", "4", " ", " ", " ", " ", "0", " ", "a", "c", "t", "i", "v", "e", " ", "1", ".", "2", ".", "6", "4", ".", "8", "4", ":", "2", "7", "0", "0", "5", "\n", "#", " ", " ", " ", "4", "2", "3", "5", " ", "\"", "N", "o", "x", "\"", " ", " ", " ", " ", " ", " ", " ", " ", " ", " ", " ", " ", " ", " ", " ", "[", "U", ":", "1", ":", "1", "8", "6", "1", "3", "4", "6", "8", "6", "]", " ", " ", " ", " ", " ", " ", "1", ":", "2", "1", ":", "1", "8", " ", " ", " ", "1", "2", "3", " ", " ", " ", " ", "0", " ", "a", "c", "t", "i", "v", "e", " ", "1", ".", "2", ".", "2", "1", "2", ".", "9", "8", ":", "2", "7", "0", "0", "5", "\n", "#", " ", " ", " ", "4", "2", "6", "2", " ", "\"", "G", "e", "o", "r", "g", "e", " ", "S", "c", "r", "u", "m", "p", "u", "s", "\"", " ", " ", " ", "[", "U", ":", "1", ":", "6", "4", "2", "7", "4", "8", "8", "6", "]", " ", " ", " ", " ", " ", " ", "1", "7", ":", "0", "9", " ", " ", " ", " ", " ", " ", "1", "1", "8", " ", " ", " ", " ", "0", " ", "a", "c", "t", "i", "v", "e", " ", "1", ".", "2", ".", "1", "2", "1", ".", "6", "8", ":", "2", "7", "0", "0", "5", "\n", "#", " ", " ", " ", "4", "2", "5", "4", " ", "\"", "a", "i", "r", "b", "u", "d", "\"", " ", " ", " ", " ", " ", " ", " ", " ", " ", " ", " ", " ", "[", "U", ":", "1", ":", "1", "9", "0", "1", "6", "3", "0", "3", "5", "]", " ", " ", " ", " ", " ", "3", "8", ":", "4", "9", " ", " ", " ", " ", " ", " ", " ", "7", "2", " ", " ", " ", " ", "0", " ", "a", "c", "t", "i", "v", "e", " ", "1", ".", "2", ".", "2", "4", "6", ".", "2", "3", "8", ":", "2", "7", "0", "0", "5", "\n", "#", " ", " ", " ", "4", "2", "5", "6", " ", "\"", "K", "e", "n", "s", "e", "i", "\"", " ", " ", " ", " ", " ", " ", " ", " ", " ", " ", " ", " ", "[", "U", ":", "1", ":", "1", "1", "9", "8", "5", "1", "8", "6", "9", "]", " ", " ", " ", " ", " ", "3", "6", ":", "3", "3", " ", " ", " ", " ", " ", " ", " ", "5", "3", " ", " ", " ", " ", "0", " ", "a", "c", "t", "i", "v", "e", " ", "1", ".", "2", ".", "1", "1", "0", ".", "6", "6", ":", "2", "7", "0", "0", "5", "\n", "#", " ", " ", " ", "4", "2", "6", "8", " ", "\"", "P", "r", "o", "g", "s", "e", "e", "k", "s", "\"", " ", " ", " ", " ", " ", " ", " ", " ", " ", "[", "U", ":", "1", ":", "1", "9", "1", "3", "8", "0", "0", "2", "3", "]", " ", " ", " ", " ", " ", "0", "1", ":", "4", "3", " ", " ", " ", " ", " ", " ", "1", "0", "5", " ", " ", " ", " ", "0", " ", "a", "c", "t", "i", "v", "e", " ", "1", ".", "2", ".", "6", "7", ".", "7", "6", ":", "2", "7", "0", "0", "5", "\n", "#", " ", " ", " ", "4", "1", "8", "1", " ", "\"", "G", "e", "r", "a", "\"", " ", " ", " ", " ", " ", " ", " ", " ", " ", " ", " ", " ", " ", " ", "[", "U", ":", "1", ":", "2", "0", "2", "3", "2", "7", "9", "1", "2", "]", " ", " ", " ", " ", " ", " ", "2", ":", "3", "9", ":", "5", "7", " ", " ", " ", "1", "0", "4", " ", " ", " ", " ", "0", " ", "a", "c", "t", "i", "v", "e", " ", "1", ".", "2", ".", "6", "2", ".", "1", "0", "0", ":", "2", "7", "0", "0", "5", "\n", "#", " ", " ", " ", "4", "2", "7", "1", " ", "\"", "A", " ", "G", "o", "o", "d", " ", "I", "d", "e", "a", "\"", " ", " ", " ", " ", " ", " ", " ", "[", "U", ":", "1", ":", "4", "3", "1", "5", "6", "5", "9", "9", "7", "]", " ", " ", " ", " ", " ", "0", "0", ":", "4", "1", " ", " ", " ", " ", " ", " ", " ", "6", "8", " ", " ", " ", " ", "0", " ", "a", "c", "t", "i", "v", "e", " ", "1", ".", "2", ".", "1", "0", "4", ".", "2", "4", "7", ":", "2", "7", "0", "0", "5", "\n", "#", " ", " ", " ", "4", "2", "1", "2", " ", "\"", "C", "h", "a", "n", "c", "e", " ", "T", "h", "e", " ", "M", "e", "m", "e", "r", "\"", " ", " ", "[", "U", ":", "1", ":", "1", "0", "6", "8", "6", "4", "8", "7", "3", "]", " ", " ", " ", " ", " ", " ", "1", ":", "5", "1", ":", "5", "8", " ", " ", " ", "1", "0", "6", " ", " ", " ", " ", "0", " ", "a", "c", "t", "i", "v", "e", " ", "1", ".", "2", ".", "2", "1", "5", ".", "6", "2", ":", "2", "7", "0", "0", "5", "\n", "#", " ", " ", " ", "4", "2", "5", "9", " ", "\"", "G", "r", "e", "e", "n", "w", "o", "o", "d", " ", "R", "N", "\"", " ", " ", " ", " ", " ", " ", "[", "U", ":", "1", ":", "1", "2", "8", "3", "7", "5", "3", "3", "2", "]", " ", " ", " ", " ", " ", "2", "4", ":", "5", "1", " ", " ", " ", " ", " ", " ", " ", "6", "7", " ", " ", " ", " ", "0", " ", "a", "c", "t", "i", "v", "e", " ", "1", ".", "2", ".", "1", "3", "6", ".", "2", "4", "6", ":", "2", "7", "0", "0", "5", "\n", "#", " ", " ", " ", "4", "2", "4", "6", " ", "\"", "F", "r", "a", "n", "k", "\"", " ", " ", " ", " ", " ", " ", " ", " ", " ", " ", " ", " ", " ", "[", "U", ":", "1", ":", "1", "6", "6", "4", "1", "5", "7", "8", "3", "]", " ", " ", " ", " ", " ", " ", "1", ":", "0", "1", ":", "5", "9", " ", " ", " ", "1", "3", "3", " ", " ", " ", " ", "0", " ", "a", "c", "t", "i", "v", "e", " ", "1", ".", "2", ".", "2", "3", ".", "1", "9", "7", ":", "2", "7", "0", "0", "5", "\n">>

\* lines the header block of a sampled status text is made of
HeaderSamples ==
    {<<"h", "o", "s", "t", "n", "a", "m", "e", ":", " ", "a", ":", " ", "b", " ">>,
     <<"v", "e", "r", "s", "i", "o", "n", " ", ":", " ", "1", "/", "2", " ", "3">>,
     <<"p", "l", "a", "y", "e", "r", "s", " ", ":", " ", "1", " ", "h", "u", "m", "a", "n", "s", ",", " ", "0", " ", "b", "o", "t", "s", " ", "(", "2", "4", " ", "m", "a", "x", ")">>,
     <<"p", "l", "a", "y", "e", "r", "s", " ", ":", " ", "2", " ", "h", "u", "m", "a", "n", "s">>,
     <<"p", "l", "a", "y", "e", "r", "s", " ", ":", " ", "0", " ", "h", "u", "m", "a", "n", "s", ",", " ", "0", " ", "b", "o", "t", "s", " ", "(", "x", " ", "m", "a", "x", ")">>,
     <<"e", "d", "i", "c", "t", "s", " ", " ", ":", " ", "1", "0", " ", "u", "s", "e", "d", " ", "o", "f", " ", "2", "0", " ", "m", "a", "x">>,
     <<"e", "d", "i", "c", "t", "s", " ", " ", ":", " ", "1", "0", " ", "u", "s", "e", "d">>,
     <<"e", "d", "i", "c", "t", "s", " ", " ", ":", " ", "x">>,
     <<"m", "a", "p", " ", " ", " ", " ", " ", ":", " ", "c", "p", "_", "x", " ", "a", "t", ":", " ", "0", " ", "x">>,
     <<"t", "a", "g", "s", " ", " ", " ", " ", ":", " ", "a", ",", "b">>,
     <<"u", "d", "p", "/", "i", "p", " ", " ", ":", " ", "1", ".", "2", ".", "3", ".", "4", ":", "5", " ", " ", "(", "p", "u", "b", "l", "i", "c", " ", "i", "p", ":", " ", "1", ".", "2", ".", "3", ".", "4", ")">>,
     <<"s", "o", "u", "r", "c", "e", "t", "v", ":", " ", " ", "1", ".", "2", ".", "3", ".", "4", ":", "5", ",", " ", "d", "e", "l", "a", "y", " ", "0", ".", "0", "s", " ", " ", "(", "l", "o", "c", "a", "l", ":", " ", "1", ".", "2", ".", "3", ".", "4", ":", "6", ")">>,
     <<"s", "t", "e", "a", "m", "i", "d", " ", ":", " ", "[", "G", ":", "1", ":", "3", "4", "1", "4", "3", "5", "6", "]", " ", "(", "8", "5", "5", "6", "8", "3", "9", "2", "9", "2", "3", "4", "5", "3", "7", "8", "0", ")">>,
     <<"n", "o", " ", "h", "e", "a", "d", "e", "r", " ", "h", "e", "r", "e">>,
     <<>>}

\* lines the player table of a sampled status text is made of
RowSamples ==
    {<<"#", " ", "u", "s", "e", "r", "i", "d", " ", "n", "a", "m", "e", " ", "u", "n", "i", "q", "u", "e", "i", "d", " ", "c", "o", "n", "n", "e", "c", "t", "e", "d", " ", "p", "i", "n", "g", " ", "l", "o", "s", "s", " ", "s", "t", "a", "t", "e", " ", "a", "d", "r">>,
     <<"#", " ", " ", " ", " ", " ", " ", "2", " ", "\"", "A", "\"", " ", "[", "U", ":", "1", ":", "5", "]", " ", "1", "5", ":", "2", "2", " ", "8", "5", " ", "0", " ", "a", "c", "t", "i", "v", "e">>,
     <<"#", " ", " ", " ", " ", " ", " ", "3", " ", "\"", "B", "\"", " ", "[", "U", ":", "1", ":", "7", "]", " ", "1", ":", "0", "2", ":", "0", "3", " ", "8", "5", " ", "0", " ", "a", "c", "t", "i", "v", "e", " ", "1", ".", "2", ".", "3", ".", "4", ":", "2", "7", "0", "0", "5">>,
     <<"#", " ", " ", " ", " ", " ", " ", "4", " ", "\"", "C", "\"", " ", "[", "U", ":", "1", ":", "9", "]", " ", "1", ":", "2", ":", "3", ":", "4", " ", "8", "5", " ", "0", " ", "a", "c", "t", "i", "v", "e", " ", "1", ".", "2", ".", "3", ".", "4", ":", "2", "7", "0", "0", "5">>,
     <<"#", " ", " ", " ", " ", " ", " ", "5", " ", "\"", "D", "\"", " ", "[", "U", ":", "1", ":", "9", "]", " ", "0", "5", ":", "x", " ", "8", "5", " ", "0", " ", "a", "c", "t", "i", "v", "e", " ", "1", ".", "2", ".", "3", ".", "4", ":", "2", "7", "0", "0", "5">>,
     <<"#", " ", " ", " ", " ", " ", " ", "6", " ", "\"", "E", "\"", " ", "[", "U", ":", "1", ":", "9", "]", " ", "0", "5", ":", "0", "6", " ", "8", "5", " ", "0", " ", "a", "c", "t", "i", "v", "e", " ", "1", ".", "2", ".", "3", ".", "4", "0", "0", ":", "2", "7", "0", "0", "5">>,
     <<"#", " ", " ", " ", " ", " ", " ", "7", " ", "\"", "F", "\"", " ", "[", "U", ":", "1", ":", "9", "]", " ", "0", "5", ":", "0", "6", " ", "8", "5", " ", "0", " ", "a", "c", "t", "i", "v", "e", " ", "1", ".", "2", ".", "3", ".", "4", ":", "x">>,
     <<"#", " ", " ", " ", " ", " ", " ", "8", " ", "\"", "G", "\"", " ", "[", "U", ":", "1", ":", "9", "]", " ", "0", "5", ":", "0", "6", " ", "9", "9", "9", "9", "9", "9", "9", "9", "9", "9", "9", "9", "9", "9", "9", "9", "9", "9", "9", "9", " ", "0", " ", "a", "c", "t", "i", "v", "e", " ", "1", ".", "2", ".", "3", ".", "4", ":", "2", "7", "0", "0", "5">>,
     <<"#", " ", " ", " ", " ", " ", " ", "9", " ", "\"", "H", "\"", " ", "[", "U", ":", "1", ":", "9", "]", " ", "0", "5", ":", "0", "6", " ", "8", "5", " ", "9", "9", "9", "9", "9", "9", "9", "9", "9", "9", "9", "9", "9", "9", "9", "9", "9", "9", "9", "9", " ", "a", "c", "t", "i", "v", "e", " ", "1", ".", "2", ".", "3", ".", "4", ":", "2", "7", "0", "0", "5">>,
     <<"#", " ", "9", "9", "9", "9", "9", "9", "9", "9", "9", "9", "9", "9", "9", "9", "9", "9", "9", "9", "9", "9", " ", "\"", "I", "\"", " ", "[", "U", ":", "1", ":", "9", "]", " ", "0", "5", ":", "0", "6", " ", "8", "5", " ", "0", " ", "a", "c", "t", "i", "v", "e", " ", "1", ".", "2", ".", "3", ".", "4", ":", "2", "7", "0", "0", "5">>,
     <<"#", " ", " ", " ", " ", " ", "1", "0", " ", "\"", "J", "\"", " ", "[", "U", ":", "1", ":", "9", "]", " ", "9", "9", "9", "9", "9", "9", "9", "9", "9", "9", ":", "0", "6", " ", "8", "5", " ", "0", " ", "a", "c", "t", "i", "v", "e", " ", "1", ".", "2", ".", "3", ".", "4", ":", "2", "7", "0", "0", "5">>,
     <<"#", " ", " ", " ", " ", " ", "1", "1", " ", "\"", "K", "\"", " ", "[", "U", ":", "1", ":", "1", "1", "]", " ", "0", "5", ":", "0", "6", " ", "8", "5", " ", "0", " ", "a", "c", "t", "i", "v", "e", " ", "1", ".", "2", ".", "3", ".", "4", ":", "2", "7", "0", "0", "5">>,
     <<"#", " ", " ", " ", " ", " ", "1", "2", " ", "\"", "L", "\"", " ", "[", "U", ":", "1", ":", "9", "]", " ", "x", ":", "1", ":", "2", ":", "3", ":", "4", " ", "8", "5", " ", "0", " ", "a", "c", "t", "i", "v", "e", " ", "1", ".", "2", ".", "3", ".", "4", ":", "2", "7", "0", "0", "5">>}

\* the most sampled lines in a header block
MaxHeaderLines == 1

\* the most sampled lines in a player table
MaxRowLines == 1

\* the texts of n lines of samples, each line ended by a newline
RECURSIVE StatusLinesOf(_, _)
StatusLinesOf(samples, n) ==
    IF n = 0 THEN {<<>>}
    ELSE {l \o <<"\n">> \o t : l \in samples, t \in StatusLinesOf(samples, n - 1)}

\* a header block followed by a player table, and the texts of the tests
StatusTexts ==
    {h \o t : h \in UNION {StatusLinesOf(HeaderSamples, n) : n \in 0..MaxHeaderLines},
              t \in UNION {StatusLinesOf(RowSamples, n) : n \in 0..MaxRowLines}}
        \cup {TestStatusText, TestStatusTextSDR}

\* the number of characters of the set in a row in s from index j on
RunIn(s, j, set) ==
    LET stops == {h \in j..Len(s) : s[h] \notin set}
    IN  IF stops = {} THEN Len(s) + 1 - j ELSE Least(stops) - j

\* the number of characters other than a line feed in s from index j on
RunOnLine(s, j) ==
    LET stops == {h \in j..Len(s) : s[h] = "\n"}
    IN  IF stops = {} THEN Len(s) + 1 - j ELSE Least(stops) - j

\* (\[U:\d+:\d+]|STEAM_\d:\d:\d+) at index j of s: the index after the
\* match, 0 when it does not match there
StatusUniqueID(s, j) ==
    IF HasAt(s, j, <<"[", "U", ":">>)
    THEN LET a == j + 3
             b == a + RunIn(s, a, Digits)
             c == b + 1
             d == c + RunIn(s, c, Digits)
         IN  IF b > a /\ HasAt(s, b, <<":">>) /\ d > c /\ HasAt(s, d, <<"]">>)
             THEN d + 1 ELSE 0
    ELSE IF /\ HasAt(s, j, SteamPrefix)
            /\ j + 10 <= Len(s)
            /\ s[j + 6] \in Digits /\ s[j + 7] = ":"
            /\ s[j + 8] \in Digits /\ s[j + 9] = ":"
            /\ s[j + 10] \in Digits
    THEN j + 10 + RunIn(s, j + 10, Digits)
    ELSE 0

\* reStatusID, "(.+?)"\s+(\[U:\d+:\d+]|STEAM_\d:\d:\d+), at index i of s,
\* where a quote stands: the name is the shortest text of one character or
\* more without a line feed that a quote, white space and the uniqueid
\* follow.  The match as its first index, the index of the second group and
\* the index after it; <<>> when there is none.
reStatusID(s, i) ==
    LET closing == {q \in (i + 2)..(i + RunOnLine(s, i + 1)) :
                       /\ s[q] = "\""
                       /\ RunIn(s, q + 1, Spaces) > 0
                       /\ StatusUniqueID(s, q + 1 + RunIn(s, q + 1, Spaces)) > 0}
        q == Least(closing)
        g == q + 1 + RunIn(s, q + 1, Spaces)
    IN  IF s[i] # "\"" \/ closing = {} THEN <<>>
        ELSE <<[first |-> i, group |-> g, after |-> StatusUniqueID(s, g)]>>

\* reStatusID.FindAllString(s, -1) from index i on: the leftmost match is
\* taken and the search goes on after it
RECURSIVE FindAllString(_, _)
FindAllString(s, i) ==
    LET quotes == {j \in i..Len(s) : s[j] = "\""}
        j == Least(quotes)
        m == reStatusID(s, j)
    IN  IF quotes = {} THEN <<>>
        ELSE IF m = <<>> THEN FindAllString(s, j + 1)
        ELSE m \o FindAllString(s, m[1].after)

\* SIDSFromStatus(s): nil, the empty sequence, when nothing is found
SIDSFromStatus(s) ==
    LET found == FindAllString(s, 1)
    IN  [k \in 1..Len(found) |-> New(StrIn(SubSeq(s, found[k].first, found[k].after - 1)))]

\* ids := SIDSFromStatus(status)
SIDSFromStatusOp ==
    /\ op = "init"
    /\ \E t \in StatusTexts :
        /\ status' = t
        /\ ids' = SIDSFromStatus(t)
        /\ op' = "SIDSFromStatus"
    /\ UNCHANGED <<codecVars, recv, randVars, body, idType, output, err, full, parsed>>

\* parsed, err := ParseStatus(status, full)
ParseStatusOp ==
    /\ op = "init"
    /\ \E t \in StatusTexts, f \in BOOLEAN :
        /\ status' = t
        /\ full' = f
        /\ parsed' = ParseStatus(t, f)
        /\ op' = "ParseStatus"
    /\ UNCHANGED <<codecVars, recv, randVars, scanVars>>

ExtraNext ==
    \/ FindReaderSteamIDsOp
    \/ ParseReaderOp
    \/ ParseStatusOp
    \/ SIDSFromStatusOp

ExtraSpec == Init /\ [][ExtraNext]_vars

----------------------------------------------------------------------------
(* RandSID64 called from concurrent goroutines                             *)

\* the goroutines that call RandSID64
MaxGoroutines == 3

Goroutines == 1..MaxGoroutines

\* the number of calls of RandSID64 that are followed
MaxCalls == 4

\* the SteamID RandSID64 builds from the value id that atomic.AddUint64
\* returned
RandSID64(id) ==
    [[[[New(StrIn(<<>>)) EXCEPT !.Universe = UniversePublic]
                         EXCEPT !.AccountType = AccountTypeIndividual]
                         EXCEPT !.Instance = InstanceDesktop]
                         EXCEPT !.AccountID = SID32(id)]

\* values of idGen from which the calls are followed: the start of the
\* program and the state after 2^32 - 2 calls
IdGenStarts == {Zero64, <<MaxLimb - 1, MaxLimb, 0, 0>>}

\* the state after idGen calls have returned; returned holds the SteamIDs
\* the callers kept, here that of the first call
RandInit ==
    /\ sid = invalidSID
    /\ input = NoInput
    /\ text = <<>>
    /\ form = "none"
    /\ orig = invalidSID
    /\ num = NoNum
    /\ valid = FALSE
    /\ op = "init"
    /\ body = <<>>
    /\ ids = <<>>
    /\ idType = "none"
    /\ output = <<>>
    /\ err = "nil"
    /\ status = <<>>
    /\ full = FALSE
    /\ parsed = [panic |-> FALSE, err |-> "nil", s |-> <<>>]
    /\ recv = invalidSID
    /\ idGen \in IdGenStarts
    /\ calls = <<>>
    /\ returned = IF idGen = Zero64 THEN <<>> ELSE <<RandSID64(<<1, 0, 0, 0>>)>>

\* id := atomic.AddUint64(&idGen, 1) in a goroutine that is not inside
\* RandSID64; calls holds the goroutines inside RandSID64 with their id
AtomicAddUint64 ==
    /\ Len(returned) + Len(calls) < MaxCalls
    /\ \E g \in Goroutines :
        /\ \A k \in 1..Len(calls) : calls[k].g # g
        /\ idGen' = Add64(idGen, <<1, 0, 0, 0>>)
        /\ calls' = Append(calls, [g |-> g, id |-> idGen'])
    /\ UNCHANGED <<codecVars, op, extraVars, recv, returned>>

\* the rest of RandSID64 in a goroutine that holds its id: sid is built
\* and returned
RandSID64Return ==
    /\ \E k \in 1..Len(calls) :
        /\ returned' = Append(returned, RandSID64(calls[k].id))
        /\ calls' = [j \in 1..(Len(calls) - 1) |-> IF j < k THEN calls[j] ELSE calls[j + 1]]
    /\ UNCHANGED <<codecVars, op, extraVars, recv, idGen>>

RandNext ==
    \/ AtomicAddUint64
    \/ RandSID64Return

RandSpec == RandInit /\ [][RandNext]_vars

----------------------------------------------------------------------------
(* Properties                                                              *)

\* every field within its declared width
InWidth(t) ==
    /\ t.Universe \in 0..255
    /\ t.AccountType \in 0..15
    /\ t.Instance \in 0..InstanceMask

\* the 64 bits of a signed value
Bits(v) == IF v.neg THEN Neg64(v.mag) ELSE v.mag

\* Universe * 2^56 + AccountType * 2^52 + Instance * 2^32 + AccountID, as a sum
FieldSum(t) ==
    <<t.AccountID[1], t.AccountID[2], t.Instance % Radix,
      t.Universe * 256 + t.AccountType * 16 + (t.Instance \div Radix)>>

IsValidIndividual(t) == t.AccountType = AccountTypeIndividual /\ Valid(t)

\* C1: for a SteamID whose fields are within their widths, the 64 bits of
\* Int64() are the sum of the four shifted fields, so no field reaches into
\* another field's bits, and String() is that 64-bit value in decimal.
C1_PackingExact ==
    (op \in {"Int64", "String"} /\ InWidth(orig)) =>
        /\ op = "Int64" => Bits(num) = FieldSum(orig)
        /\ op = "String" => text = FormatInt(ToInt64(FieldSum(orig)))

C1_Witness ==
    /\ op = "Int64"
    /\ orig = SteamID(<<65535, 65535>>, InstanceMask, 15, 255)
    /\ Bits(num) = <<65535, 65535, 65535, 65535>>

\* C2 as stated: for all field values within their widths, New(i.Int64())
\* returns the four fields of i.
C2_PackUnpackAll ==
    (op = "NewInt64" /\ InWidth(orig)) => Equal(sid, orig)

\* C2 amended: New(i.Int64()) returns the four fields of i when Int64() is
\* at least BaseSID; a positive Int64() below BaseSID is decoded as a bare
\* account id (Public, Individual, Desktop, the low 32 bits), and a zero or
\* negative Int64() (Universe 128 and up) gives the invalid SteamID.
C2_PackUnpackFromBase ==
    (op = "NewInt64" /\ InWidth(orig)) =>
        IF num.neg \/ num.mag = Zero64 THEN sid = invalidSID
        ELSE IF Lt64(num.mag, BaseSID)
        THEN sid = SteamID(orig.AccountID, InstanceDesktop,
                           AccountTypeIndividual, UniversePublic)
        ELSE sid = orig

C2_Witness ==
    /\ op = "NewInt64"
    /\ orig = SteamID(<<65535, 65535>>, InstanceMask, 15, 5)
    /\ ~num.neg
    /\ sid = orig

\* C3 as stated: for every valid Individual i, New(i.String()) and
\* New(i.Int64()) equal i in all four fields.
C3_Steam64RoundTrip ==
    (/\ \/ op = "NewInt64"
        \/ op = "NewText" /\ form = "String"
     /\ IsValidIndividual(orig)) => Equal(sid, orig)

\* C4 as stated: for every valid Individual i, New(string(i.Steam3()))
\* equals i in all four fields, the Instance included.
C4_Steam3RoundTrip ==
    (op = "NewText" /\ form = "Steam3" /\ IsValidIndividual(orig)) => Equal(sid, orig)

\* C5 as stated: for every valid Individual i, New(string(i.Steam(false)))
\* equals i in all four fields.
C5_Steam2RoundTrip ==
    (op = "NewText" /\ form = "SteamFalse" /\ IsValidIndividual(orig)) =>
        Equal(sid, orig)

\* C5 amended: for every valid Individual i, New(string(i.Steam(false)))
\* equals i except that its Instance is Desktop; it equals i in all four
\* fields when the Instance of i is Desktop.
C5_Steam2RoundTripDesktop ==
    (op = "NewText" /\ form = "SteamFalse" /\ IsValidIndividual(orig)) =>
        sid = [orig EXCEPT !.Instance = InstanceDesktop]

C5_Witness ==
    /\ op = "NewText"
    /\ form = "SteamFalse"
    /\ orig = SteamID(<<65535, 65535>>, InstanceDesktop, AccountTypeIndividual,
                      UniverseDev)
    /\ Valid(orig)
    /\ sid = orig

\* the SteamID of the fixed vector: account id 172346362, Desktop, Individual,
\* Public
VectorSID ==
    SteamID(SID32(ParseUint(<<"1", "7", "2", "3", "4", "6", "3", "6", "2">>).val),
            InstanceDesktop, AccountTypeIndividual, UniversePublic)

Vector64 == <<"7", "6", "5", "6", "1", "1", "9", "8", "1", "3", "2", "6", "1", "2", "0", "9", "0">>

Vector2 == <<"S", "T", "E", "A", "M", "_", "0", ":", "0", ":", "8", "6", "1", "7", "3", "1", "8", "1">>

Vector3 == <<"[", "U", ":", "1", ":", "1", "7", "2", "3", "4", "6", "3", "6", "2", "]">>

Vector32 == <<"1", "7", "2", "3", "4", "6", "3", "6", "2">>

VectorForms ==
    {StrIn(Vector64), StrIn(Vector2), StrIn(Vector3), StrIn(Vector32),
     IntIn("int", FALSE, ParseUint(Vector64).val),
     IntIn("int", FALSE, ParseUint(Vector32).val)}

\* C6: 76561198132612090, STEAM_0:0:86173181, [U:1:172346362] and 172346362
\* all decode with New to one SteamID, and that SteamID renders as exactly
\* those values with String(), Int64(), Steam(false), Steam3() and AccountID.
C6_FixedVector ==
    /\ (op = "New" /\ input \in VectorForms) => sid = VectorSID
    /\ (op = "String" /\ orig = VectorSID) => text = Vector64
    /\ (op = "Int64" /\ orig = VectorSID) =>
            num = [neg |-> FALSE, mag |-> ParseUint(Vector64).val]
    /\ (op = "Steam" /\ form = "SteamFalse" /\ orig = VectorSID) => text = Vector2
    /\ (op = "Steam3" /\ orig = VectorSID) => text = Vector3
    /\ (op = "String" /\ orig = VectorSID) => FormatUint(Widen(sid.AccountID)) = Vector32

C6_Witness ==
    /\ op = "Steam"
    /\ form = "SteamFalse"
    /\ orig = VectorSID
    /\ text = Vector2

\* C7: for an account id a, 1 <= a < 2^32, New returns the same valid SteamID,
\* with packed value BaseSID + a, for a given as int, int32 (when a fits) or
\* int64, as STEAM_0:<a&1>:<a/2>, as [U:1:<a>], and for BaseSID + a given as
\* int, uint64 or decimal string.
C7_AllFormsAgree ==
    op = "New" =>
        \A a \in FormAccounts :
            input \in FormsOf(a) =>
                /\ Valid(sid)
                /\ sid = SteamID(a, InstanceDesktop, AccountTypeIndividual,
                                 UniversePublic)
                /\ Int64(sid) = [neg |-> FALSE, mag |-> Add64(BaseSID, Widen(a))]

C7_Witness ==
    /\ op = "New"
    /\ input = IntIn("int32", FALSE, ParseUint(<<"8", "4", "7", "4", "5", "5", "7", "4">>).val)
    /\ input \in FormsOf(<<7526, 1293>>)
    /\ Valid(sid)
    /\ String(sid) = <<"7", "6", "5", "6", "1", "1", "9", "8", "0", "4", "5", "0", "1", "1", "3", "0", "2">>

\* an argument of New that is no Steam2 text, no Steam3 text and no positive
\* decimal integer
IsUnparseable(in) ==
    \/ in.type = "string" /\ in.str \in JunkTexts
    \/ in.type \in IntTypes \cup {"uint64"} /\ (in.val.neg \/ in.val.mag = Zero64)
    \/ in.type \notin IntTypes \cup {"uint64", "string"}

\* C8: for "", "asdf", "0" and every other input that is no Steam2 text, no
\* Steam3 text and no positive decimal integer (negative integers and
\* unsupported types included), New returns the canonical invalid SteamID,
\* and Valid() is false for it.
C8_InvalidInputCanonical ==
    (op = "New" /\ IsUnparseable(input)) => (sid = invalidSID /\ ~Valid(sid))

\* C9: Valid() is true exactly when AccountType is in Individual..AnonUser,
\* Universe is in Public..Dev, an Individual has AccountID # 0 and
\* Instance <= Web, a Clan has AccountID # 0 and Instance = All, and a
\* GameServer has AccountID # 0.
C9_ValidExactly ==
    op = "Valid" =>
        (valid <=>
            /\ sid.AccountType \in AccountTypeIndividual..AccountTypeAnonUser
            /\ sid.Universe \in UniversePublic..UniverseDev
            /\ sid.AccountType = AccountTypeIndividual =>
                    (sid.AccountID # <<0, 0>> /\ sid.Instance <= InstanceWeb)
            /\ sid.AccountType = AccountTypeClan =>
                    (sid.AccountID # <<0, 0>> /\ sid.Instance = InstanceAll)
            /\ sid.AccountType = AccountTypeGameServer => sid.AccountID # <<0, 0>>)

C9_Witness ==
    /\ op = "Valid"
    /\ valid
    /\ sid.AccountType = AccountTypeClan
    /\ sid.Universe = UniverseDev

\* the universe a Steam2 universe digit is stored as
Steam2Universe(u) == IF u = 0 THEN UniversePublic ELSE u

LetterInstance(l) ==
    CASE l = "U" -> InstanceDesktop
      [] l = "A" -> InstanceAll
      [] l = "C" -> InstanceConsole
      [] l = "W" -> InstanceWeb
      [] OTHER -> InstanceAll

\* the letter table read from letter to AccountType
LetterAccountType(l) ==
    CASE l = "U" -> AccountTypeIndividual
      [] l = "M" -> AccountTypeMultiSeat
      [] l = "G" -> AccountTypeGameServer
      [] l = "A" -> AccountTypeAnonGameServer
      [] l = "P" -> AccountTypePending
      [] l = "C" -> AccountTypeContentServer
      [] l = "g" -> AccountTypeClan
      [] l = "T" -> AccountTypeChat
      [] l = "a" -> AccountTypeAnonUser
      [] OTHER -> AccountTypeInvalid

\* what C11 says of the Instance and the AccountType for Steam3 letter l
Steam3LetterFields(l) ==
    /\ sid.Instance = (IF l = "c" THEN LetterInstance(l) + ClanMask
                       ELSE IF l = "L" THEN LetterInstance(l) + Lobby
                       ELSE LetterInstance(l))
    /\ l = "c" => sid.AccountType = AccountTypeChat
    /\ l \notin {"c", "L"} => sid.AccountType = LetterAccountType(l)

\* sid was made by New from a text of the Steam3 grammar
FromSteam3Text == op = "New" /\ input.type = "string" /\ reSteam3(input.str) # <<>>

IsPositiveInteger(in) ==
    \/ in.type \in IntTypes \cup {"uint64"} /\ ~in.val.neg /\ in.val.mag # Zero64
    \/ in.type = "string" /\ AllDigits(in.str) /\ \E k \in 1..Len(in.str) : in.str[k] # "0"

\* the value of a positive integer input, ok being false at 2^64 and above
IntegerValue(in) ==
    IF in.type = "string" THEN ParseUint(in.str) ELSE [ok |-> TRUE, val |-> in.val.mag]

\* the four fields of n by the shift and mask formula
Unpacked(n) ==
    /\ sid.AccountID = <<n[1], n[2]>>
    /\ sid.Instance = n[3] + Radix * (n[4] % 16)
    /\ sid.AccountType = (n[4] \div 16) % 16
    /\ sid.Universe = n[4] \div 256

\* C12 as stated: for a positive integer n, as an integer or a decimal text,
\* New returns Public, Individual, Desktop and AccountID = n when
\* n < 76561197960265728, and otherwise the four fields of n by shift and
\* mask; only the value of n decides, not the length of its text.
C12_IntegerDecode ==
    (op = "New" /\ IsPositiveInteger(input)) =>
        LET n == IntegerValue(input)
        IN  /\ n.ok
            /\ IF Lt64(n.val, BaseSID)
               THEN /\ sid.Universe = UniversePublic
                    /\ sid.AccountType = AccountTypeIndividual
                    /\ sid.Instance = InstanceDesktop
                    /\ Widen(sid.AccountID) = n.val
               ELSE Unpacked(n.val)

\* C12 amended: for a positive integer n < 2^64, New returns Public,
\* Individual, Desktop and AccountID = n mod 2^32 when n < 76561197960265728,
\* and otherwise the four fields of n by shift and mask; for a decimal text
\* of 2^64 or more it returns the invalid SteamID.
C12_IntegerDecodeMod32 ==
    (op = "New" /\ IsPositiveInteger(input)) =>
        LET n == IntegerValue(input)
        IN  IF ~n.ok THEN sid = invalidSID
            ELSE IF Lt64(n.val, BaseSID)
            THEN /\ sid.Universe = UniversePublic
                 /\ sid.AccountType = AccountTypeIndividual
                 /\ sid.Instance = InstanceDesktop
                 /\ sid.AccountID = <<n.val[1], n.val[2]>>
            ELSE Unpacked(n.val)

\* a 17-digit text below BaseSID is decoded as a bare account id
C12_Witness ==
    /\ op = "New"
    /\ input = StrIn(<<"7", "6", "5", "6", "1", "1", "9", "7", "9", "6", "0", "2", "6", "5", "7", "2", "7">>)
    /\ sid = SteamID(<<65535, 65535>>, InstanceDesktop, AccountTypeIndividual, UniversePublic)

\* the texts between the colons of s, in order
RECURSIVE SplitColons(_)
SplitColons(s) ==
    IF \A k \in 1..Len(s) : s[k] # ":" THEN <<s>>
    ELSE LET p == CHOOSE k \in 1..Len(s) :
                      s[k] = ":" /\ \A j \in 1..(k - 1) : s[j] # ":"
         IN  <<SubSeq(s, 1, p - 1)>> \o SplitColons(SubSeq(s, p + 1, Len(s)))

\* d is the decimal numeral of the 64-bit value v, without leading zeros
IsDecimalOf(d, v) ==
    /\ ParseUint(d).ok
    /\ ParseUint(d).val = v
    /\ Len(d) = 1 \/ d[1] # "0"

\* C13: Steam(format) is empty unless AccountType is Individual; for an
\* Individual it is STEAM_<u>:<x>:<h> with x = AccountID & 1 and
\* h = floor(AccountID / 2), that is 2*h + x = AccountID, and u the Universe
\* number, Public being written 0 when format is false and 1 when it is true.
C13_SteamRender ==
    op = "Steam" =>
        IF orig.AccountType # AccountTypeIndividual THEN text = <<>>
        ELSE /\ Len(text) > 6
             /\ SubSeq(text, 1, 6) = <<"S", "T", "E", "A", "M", "_">>
             /\ LET f == SplitColons(SubSeq(text, 7, Len(text)))
                    u == IF orig.Universe = UniversePublic
                         THEN (IF form = "SteamTrue" THEN 1 ELSE 0)
                         ELSE orig.Universe
                IN  /\ Len(f) = 3
                    /\ IsDecimalOf(f[1], ToU64(u))
                    /\ f[2] \in {<<"0">>, <<"1">>}
                    /\ DigitVal(f[2][1]) = orig.AccountID[1] % 2
                    /\ IsDecimalOf(f[3], ParseUint(f[3]).val)
                    /\ Add64(Add64(ParseUint(f[3]).val, ParseUint(f[3]).val),
                             ToU64(DigitVal(f[2][1]))) = Widen(orig.AccountID)

C13_Witness ==
    /\ op = "Steam"
    /\ form = "SteamTrue"
    /\ orig.AccountType = AccountTypeIndividual
    /\ orig.Universe = UniversePublic
    /\ orig.AccountID = <<65535, 65535>>
    /\ text = Steam2Text(1, 1, <<"2", "1", "4", "7", "4", "8", "3", "6", "4", "7">>)

\* the letter table read from AccountType to letter
TableLetter(ac) ==
    CASE ac = AccountTypeIndividual -> <<"U">>
      [] ac = AccountTypeMultiSeat -> <<"M">>
      [] ac = AccountTypeGameServer -> <<"G">>
      [] ac = AccountTypeAnonGameServer -> <<"A">>
      [] ac = AccountTypePending -> <<"P">>
      [] ac = AccountTypeContentServer -> <<"C">>
      [] ac = AccountTypeClan -> <<"g">>
      [] ac = AccountTypeChat -> <<"T">>
      [] ac = AccountTypeP2PSuperSeeder -> <<>>
      [] ac = AccountTypeAnonUser -> <<"a">>
      [] OTHER -> <<"I">>

\* bit k (a power of two) of n is set
HasBit(n, k) == (n \div k) % 2 = 1

\* C14: Steam3() is [<letter>:<Universe>:<AccountID>] with :<Instance> as a
\* 4th segment exactly when AccountType is AnonGameServer, MultiSeat, or
\* Individual with Instance # Desktop; the letter is c when the ClanMask bit
\* of Instance is set, otherwise L when the Lobby bit is set, otherwise the
\* table letter of the AccountType.
C14_Steam3Render ==
    op = "Steam3" =>
        /\ Len(text) >= 2
        /\ text[1] = "["
        /\ text[Len(text)] = "]"
        /\ LET f == SplitColons(SubSeq(text, 2, Len(text) - 1))
               fourth == \/ orig.AccountType = AccountTypeAnonGameServer
                         \/ orig.AccountType = AccountTypeMultiSeat
                         \/ /\ orig.AccountType = AccountTypeIndividual
                            /\ orig.Instance # InstanceDesktop
           IN  /\ Len(f) = (IF fourth THEN 4 ELSE 3)
               /\ f[1] = (IF HasBit(orig.Instance, ClanMask) THEN <<"c">>
                          ELSE IF HasBit(orig.Instance, Lobby) THEN <<"L">>
                          ELSE TableLetter(orig.AccountType))
               /\ IsDecimalOf(f[2], ToU64(orig.Universe))
               /\ IsDecimalOf(f[3], Widen(orig.AccountID))
               /\ fourth => IsDecimalOf(f[4], ToU64(orig.Instance))

\* a MultiSeat whose Instance has both flag bits set renders with letter c
\* and a 4th segment
C14_Witness ==
    /\ op = "Steam3"
    /\ orig.AccountType = AccountTypeMultiSeat
    /\ orig.Instance = InstanceMask
    /\ orig.Universe = UniversePublic
    /\ orig.AccountID = <<2, 0>>
    /\ text = <<"[", "c", ":", "1", ":", "2", ":", "1", "0", "4", "8", "5", "7", "5", "]">>

\* s with the bracket it lacks at either end put on
Bracketed(s) ==
    LET t == IF Len(s) > 0 /\ s[1] = "[" THEN s ELSE <<"[">> \o s
    IN  IF t[Len(t)] = "]" THEN t ELSE t \o <<"]">>

\* C15: New decodes a Steam3 text that lacks its leading [ and/or its
\* trailing ] to the same SteamID as the fully bracketed text.
C15_Steam3OptionalBrackets ==
    (op = "New" /\ input.type = "string" /\ reSteam3(Bracketed(input.str)) # <<>>)
        => sid = New(StrIn(Bracketed(input.str)))

\* C16: for two SteamIDs a and b returned by New, a.Equal(b) is true exactly
\* when the four fields are equal, and that is exactly when
\* a.Int64() = b.Int64().
C16_EqualIffFieldsIffPacked ==
    op = "Equal" =>
        LET same == /\ sid.AccountID = orig.AccountID
                    /\ sid.Instance = orig.Instance
                    /\ sid.AccountType = orig.AccountType
                    /\ sid.Universe = orig.Universe
        IN  /\ valid <=> same
            /\ same <=> (Int64(sid) = Int64(orig))

\* two results of New that differ in the AccountType alone
C16_Witness ==
    /\ op = "Equal"
    /\ ~valid
    /\ sid.AccountType # orig.AccountType
    /\ sid.AccountID = orig.AccountID
    /\ sid.Instance = orig.Instance
    /\ sid.Universe = orig.Universe

\* every line of the text s, cut at the newlines
RECURSIVE AllLines(_)
AllLines(s) ==
    LET p == IndexFrom(s, "\n", 1)
    IN  IF p = 0 THEN <<s>>
        ELSE <<SubSeq(s, 1, p - 1)>> \o AllLines(SubSeq(s, p + 1, Len(s)))

ScanKinds == <<"freSID", "freSID64", "freSID3">>

\* the occurrences of identifiers in the text s: line number, pattern,
\* column and the SteamID the matched text decodes to, for each match that
\* decodes to a SteamID that is Valid()
Occurrences(s) ==
    LET lines == AllLines(s)
    IN  {o \in UNION {UNION {{[line |-> n, kind |-> k, col |-> m[1],
                               id |-> New(StrIn(SubSeq(lines[n], m[1], m[2])))] :
                                  m \in {FindAllIndex(ScanKinds[k], lines[n], 1)[j] :
                                            j \in 1..Len(FindAllIndex(ScanKinds[k], lines[n], 1))}} :
                              k \in 1..3} : n \in 1..Len(lines)} :
            Valid(o.id)}

\* C17: FindReaderSteamIDs returns a sequence in which no two elements have
\* the same packed value and every element is Valid(), and every valid
\* identifier matched anywhere in the text is in it; the test body gives 8
\* elements.
C17_ScanDistinctValidComplete ==
    op = "FindReaderSteamIDs" =>
        /\ \A j, k \in 1..Len(ids) : Int64(ids[j]) = Int64(ids[k]) => j = k
        /\ \A k \in 1..Len(ids) : Valid(ids[k])
        /\ \A o \in Occurrences(body) : \E k \in 1..Len(ids) : Int64(ids[k]) = Int64(o.id)
        /\ body = TestParseInputBody => Len(ids) = 8

\* o comes before q in the text: on an earlier line, or on the same line at
\* an earlier column
TextBefore(o, q) == o.line < q.line \/ (o.line = q.line /\ o.col < q.col)

\* o is found before q by the scan loop: on an earlier line, or on the same
\* line by an earlier pattern, or by the same pattern at an earlier column
ScanBefore(o, q) ==
    \/ o.line < q.line
    \/ o.line = q.line /\ o.kind < q.kind
    \/ o.line = q.line /\ o.kind = q.kind /\ o.col < q.col

\* C18 as stated: the identifiers are listed in the order in which each one
\* first occurs in the text, and a second scan of the text gives the same
\* sequence.
C18_OrderOfFirstOccurrence ==
    op = "FindReaderSteamIDs" =>
        /\ \A j, k \in 1..Len(ids) : j < k =>
              \E o \in Occurrences(body) :
                  /\ o.id = ids[j]
                  /\ \A q \in Occurrences(body) : q.id = ids[k] => TextBefore(o, q)
        /\ ids = FindReaderSteamIDs(body)

\* C18 amended: the identifiers are listed in the order in which the scan
\* loop first finds each one: line by line, and within a line the STEAM_
\* matches, then the 7656119 matches, then the [U:1: matches, each from left
\* to right; a second scan of the text gives the same sequence.
C18_OrderOfDiscovery ==
    op = "FindReaderSteamIDs" =>
        /\ \A j, k \in 1..Len(ids) : j < k =>
              \E o \in Occurrences(body) :
                  /\ o.id = ids[j]
                  /\ \A q \in Occurrences(body) : q.id = ids[k] => ScanBefore(o, q)
        /\ ids = FindReaderSteamIDs(body)

\* on the first line of the block the STEAM_ literal is listed first, though
\* a bracketed literal stands before it
C18_Witness ==
    /\ op = "FindReaderSteamIDs"
    /\ body = LiteralBlock
    /\ Len(ids) >= 2
    /\ ids[1] = New(StrIn(<<"S", "T", "E", "A", "M", "_", "0", ":", "0", ":", "8", "6", "1", "7", "3", "1", "8", "2">>))
    /\ ids[2] = New(StrIn(<<"[", "U", ":", "1", ":", "1", "7", "2", "3", "4", "6", "3", "6", "2", "]">>))

\* the block of C19, with or without whitespace around the bracketed forms
IsLiteralBlock == op = "FindReaderSteamIDs" /\ body \in {LiteralBlock, LiteralBlockSpaced}

\* C19 as stated: scanning the block of six literals returns 6 identifiers
\* with no duplicates.
C19_BlockGivesSix ==
    IsLiteralBlock =>
        /\ Len(ids) = 6
        /\ \A j, k \in 1..Len(ids) : Int64(ids[j]) = Int64(ids[k]) => j = k

\* C19 amended: scanning the block of six literals returns the 4 distinct
\* identifiers they denote, with account ids 172346364, 172346362, 172346342
\* and 123868297, whether or not whitespace separates the bracketed forms.
C19_BlockGivesFour ==
    IsLiteralBlock =>
        /\ Len(ids) = 4
        /\ \A j, k \in 1..Len(ids) : Int64(ids[j]) = Int64(ids[k]) => j = k
        /\ {ids[k] : k \in 1..Len(ids)} =
              {SteamID(SID32(ParseUint(a).val), InstanceDesktop, AccountTypeIndividual, UniversePublic) :
                  a \in {<<"1", "7", "2", "3", "4", "6", "3", "6", "4">>,
                         <<"1", "7", "2", "3", "4", "6", "3", "6", "2">>,
                         <<"1", "7", "2", "3", "4", "6", "3", "4", "2">>,
                         <<"1", "2", "3", "8", "6", "8", "2", "9", "7">>}}

C19_Witness ==
    /\ op = "FindReaderSteamIDs"
    /\ body = LiteralBlockSpaced
    /\ Len(ids) = 4

\* the status block of the test vector, with the plain or the SDR udp/ip line
IsStatusBlock == op = "ParseStatus" /\ status \in {TestStatusText, TestStatusTextSDR}

\* the values the test vector names
StatusVector(r) ==
    /\ ~r.panic
    /\ r.err = "nil"
    /\ r.s.ServerName = <<"U", "n", "c", "l", "e", "t", "o", "p", "i", "a", " ", "|", " ", "U", "S", " ", "W", "e", "s", "t", " ", "2">>
    /\ r.s.Map = <<"p", "l", "_", "g", "o", "l", "d", "r", "u", "s", "h">>
    /\ r.s.PlayersMax = GoInt(32)
    /\ r.s.PlayersCount = GoInt(11)
    /\ r.s.Edicts = <<GoInt(1717), GoInt(2048)>>
    /\ r.s.Tags = <<<<"U", "n", "c", "l", "e", "t", "o", "p", "i", "a">>, <<"n", "o", "c", "r", "i", "t", "s">>, <<"n", "o", "d", "m", "g", "s", "p", "r", "e", "a", "d">>, <<"p", "a", "y", "l", "o", "a", "d">>>>

\* C20 as stated: ParseStatus on the status block with the five header lines
\* and 11 player rows returns no error, ServerName "Uncletopia | US West 2",
\* Map "pl_goldrush", PlayersMax 32, PlayersCount 11, Edicts [1717, 2048] and
\* Tags split on commas, for either value of the full flag.
C20_StatusBlockParsed == IsStatusBlock => StatusVector(parsed)

\* with full set the block gives the vector; without it the rows whose
\* connected time has an hours part do not match reStatusPlayer
StatusBlockFull == (IsStatusBlock /\ full) => StatusVector(parsed)

StatusBlockNotFull ==
    (IsStatusBlock /\ ~full) =>
        StatusVector([parsed EXCEPT !.s.PlayersCount = GoInt(11)])
            /\ parsed.s.PlayersCount = GoInt(7)

\* the lines of the text ParseStatus was called on
StatusTextLines == Split(status, "\n")

\* the match of a line against the player-row pattern the flag selects, <<>>
\* for a line that is no player row
RowMatch(line, isFull) ==
    IF ~HasAt(line, 1, <<"#">>) THEN <<>>
    ELSE IF isFull THEN FindStringSubmatch(reStatusPlayerFull, 9, line)
    ELSE FindStringSubmatch(reStatusPlayer, 7, line)

\* a sub-field of the matched row m is malformed: user id, ping, loss, a
\* part of the connected time or the port is no unsigned integer, or the IP
\* is no address
MalformedRow(m, isFull) ==
    \/ ~ParseUint(m[2]).ok
    \/ ~ParseUint(m[6]).ok
    \/ ~ParseUint(m[7]).ok
    \/ \E k \in 1..Len(Split(m[5], ":")) : ~ParseUint(Split(m[5], ":")[k]).ok
    \/ isFull /\ (~ParseUint(m[10]).ok \/ ~ParseIP(m[9]))

\* some line of the text is a matched row with a malformed sub-field
HasMalformedRow ==
    /\ op = "ParseStatus"
    /\ \E k \in 1..Len(StatusTextLines) :
        /\ RowMatch(StatusTextLines[k], full) # <<>>
        /\ MalformedRow(RowMatch(StatusTextLines[k], full), full)

\* the errors of the player-row branch
RowErrors ==
    {"ErrParseUserID", "ErrParsePing", "ErrParseLoss", "ErrParseSeconds",
     "ErrParseDuration", "ErrParseIP", "ErrParsePort"}

\* C21 as stated: when a line matches the player-row pattern and one of its
\* sub-fields is malformed, ParseStatus returns the empty Status and an error
\* naming the field kind: no partial result, no skipped row, no panic.
C21_MalformedRowAborts ==
    HasMalformedRow =>
        /\ ~parsed.panic
        /\ parsed.err \in RowErrors
        /\ parsed.s = NoStatus

\* whenever the call returns at all, a malformed row gives the empty Status
\* and one of the row errors
MalformedRowAbortsUnlessPanic ==
    (HasMalformedRow /\ ~parsed.panic) =>
        /\ parsed.err \in RowErrors
        /\ parsed.s = NoStatus

\* a text whose only line is a row with a malformed part of the connected
\* time, on which the call panics
MalformedRowPanics ==
    /\ HasMalformedRow
    /\ Len(StatusTextLines) = 2
    /\ parsed.panic

\* the rows of the text SIDSFromStatus was called on: the matches of
\* reStatusID, a quoted name followed by the uniqueid column
StatusIDRows == FindAllString(status, 1)

\* the text of the uniqueid column of row k
UniqueID(k) == SubSeq(status, StatusIDRows[k].group, StatusIDRows[k].after - 1)

\* C22 as stated: SIDSFromStatus returns one SteamID per player row, in row
\* order, each equal to New of the text in the row's uniqueid column, and nil
\* when no row matches.
C22_SIDSFromStatusPerRow ==
    op = "SIDSFromStatus" =>
        ids = [k \in 1..Len(StatusIDRows) |-> New(StrIn(UniqueID(k)))]

\* what the call returns: one SteamID per row, each of them the invalid
\* SteamID, New being handed the name and the uniqueid column together
SIDSFromStatusAllInvalid ==
    op = "SIDSFromStatus" =>
        ids = [k \in 1..Len(StatusIDRows) |-> invalidSID]

\* the text without its sign
Unsigned(s) == IF Len(s) > 0 /\ s[1] \in {"+", "-"} THEN Tail(s) ELSE s

\* s is a decimal int64: an optional sign and one or more digits, the value
\* between -2^63 and 2^63 - 1
IsInt64Text(s) ==
    /\ Unsigned(s) # <<>>
    /\ AllDigits(Unsigned(s))
    /\ ParseUint(Unsigned(s)).ok
    /\ LET mag == ParseUint(Unsigned(s)).val
       IN  IF s[1] = "-" THEN mag[4] < Radix \div 2 \/ mag = <<0, 0, 0, Radix \div 2>>
           ELSE mag[4] < Radix \div 2

\* the int64 the decimal text s denotes
Int64Of(s) ==
    [neg |-> s[1] = "-" /\ ParseUint(Unsigned(s)).val # Zero64,
     mag |-> ParseUint(Unsigned(s)).val]

\* C23: SID64FromString returns an error and the zero SteamID, equal to
\* New("") and New("0"), for the empty string, for a string that is no decimal
\* int64 and for a number whose SteamID is not Valid(); for any other string
\* it returns New of the number and a nil error.
C23_SID64FromString ==
    op = "SID64FromString" =>
        LET steamID == input.str
            decoded == New(IntIn("int64", Int64Of(steamID).neg, Int64Of(steamID).mag))
        IN  IF steamID = <<>> \/ ~IsInt64Text(steamID) \/ ~Valid(decoded)
            THEN /\ err # "nil"
                 /\ sid = New(StrIn(<<>>))
                 /\ sid = New(StrIn(<<"0">>))
                 /\ sid.AccountID = <<0, 0>> /\ sid.Instance = 0
                 /\ sid.AccountType = 0 /\ sid.Universe = 0
            ELSE err = "nil" /\ sid = decoded

\* a number that decodes to a SteamID that is not valid gives the error
C23_Witness ==
    /\ op = "SID64FromString"
    /\ IsInt64Text(input.str)
    /\ Int64Of(input.str).mag # Zero64
    /\ err = "ErrInvalidSID"
    /\ sid = ZeroSteamID

\* a signed text that decodes to a valid SteamID is accepted
SignedTextAccepted ==
    /\ op = "SID64FromString"
    /\ input.str[1] = "+"
    /\ err = "nil"
    /\ Valid(sid)

\* the text of a JSON string: the characters between its quotes
Unquoted(data) == SubSeq(data, 2, Len(data) - 1)

\* data is a quoted string without escapes
IsQuoted(data) ==
    /\ Len(data) >= 2
    /\ data[1] = "\"" /\ data[Len(data)] = "\""
    /\ \A k \in 2..(Len(data) - 1) : data[k] # "\"" /\ data[k] # "\\"

\* MarshalJSON writes the quoted decimal string of the packed value
MarshalJSONQuotedDecimal ==
    op = "MarshalJSON" =>
        /\ IsQuoted(text)
        /\ Unquoted(text) = FormatInt(Int64(orig))
        /\ sid = orig

\* UnmarshalJSON of a string that does not decode to a valid SteamID returns
\* an error and leaves the receiver unchanged
InvalidStringLeavesReceiver ==
    (op = "UnmarshalJSON" /\ IsQuoted(text) /\ ~Valid(New(StrIn(Unquoted(text))))) =>
        err # "nil" /\ sid = recv

\* UnmarshalJSON of MarshalJSON(i) succeeds and yields i
UnmarshalOfMarshalled ==
    (op = "UnmarshalJSON" /\ Valid(orig) /\ text = MarshalJSON(orig)) =>
        err = "nil" /\ Equal(sid, orig)

\* C24: MarshalJSON writes a SteamID as the quoted decimal string of its
\* packed 64-bit value; for every SteamID i for which Valid() is true,
\* UnmarshalJSON of MarshalJSON(i) succeeds and yields a SteamID equal to i;
\* UnmarshalJSON of a string that does not decode to a valid SteamID returns
\* an error and leaves the receiver unchanged.
C24_JSONRoundTrip ==
    /\ MarshalJSONQuotedDecimal
    /\ UnmarshalOfMarshalled
    /\ InvalidStringLeavesReceiver

\* UnmarshalJSON of MarshalJSON(i) yields i unless i is an Individual of the
\* public universe whose instance is not Desktop
UnmarshalOfMarshalledElsewhere ==
    (/\ op = "UnmarshalJSON" /\ Valid(orig) /\ text = MarshalJSON(orig)
     /\ ~(orig.AccountType = AccountTypeIndividual /\ orig.Universe = UniversePublic
          /\ orig.Instance # InstanceDesktop)) =>
        err = "nil" /\ Equal(sid, orig)

\* a marshalled valid SteamID that UnmarshalJSON accepts and changes
MarshalledInstanceLost ==
    /\ op = "UnmarshalJSON"
    /\ Valid(orig)
    /\ text = MarshalJSON(orig)
    /\ err = "nil"
    /\ orig.Instance = InstanceAll
    /\ sid.Instance = InstanceDesktop
    /\ sid.AccountID = orig.AccountID

\* the SteamIDs in returned are pairwise distinct
ReturnedDistinct ==
    \A j, k \in 1..Len(returned) : j # k => ~Equal(returned[j], returned[k])

\* every SteamID in returned is valid, with the fields RandSID64 sets
ReturnedValid ==
    \A k \in 1..Len(returned) :
        /\ Valid(returned[k])
        /\ returned[k].Universe = UniversePublic
        /\ returned[k].AccountType = AccountTypeIndividual
        /\ returned[k].Instance = InstanceDesktop
        /\ returned[k].AccountID # <<0, 0>>

\* C25: any number of calls to RandSID64, including calls interleaved from
\* concurrent goroutines, return pairwise distinct SteamIDs, and every
\* returned SteamID satisfies Valid() (Universe Public, AccountType
\* Individual, Instance Desktop, AccountID != 0).
C25_RandSID64DistinctValid == ReturnedDistinct /\ ReturnedValid

\* no two goroutines inside RandSID64 hold the same id, and no id held is
\* past idGen
IdsHeldDistinct ==
    /\ \A j, k \in 1..Len(calls) : j # k => calls[j].id # calls[k].id
    /\ \A k \in 1..Len(calls) : ~Lt64(idGen, calls[k].id)

\* while fewer than 2^32 calls have been made the returned SteamIDs are
\* pairwise distinct and valid
DistinctValidBeforeWrap ==
    (idGen[3] = 0 /\ idGen[4] = 0) => C25_RandSID64DistinctValid

\* call 2^32 has returned: its AccountID is 0
RandSID64Wrapped ==
    \E k \in 1..Len(returned) :
        /\ returned[k].AccountID = <<0, 0>>
        /\ ~Valid(returned[k])

\* call 2^32 + 1 has returned the SteamID of the first call
RandSID64Repeated ==
    /\ idGen = <<1, 0, 1, 0>>
    /\ \E k \in 2..Len(returned) : Equal(returned[1], returned[k])

\* the keys of the header lines ParseStatus recognises
RecognisedKeys ==
    {<<"u", "d", "p", "/", "i", "p">>,
     <<"s", "o", "u", "r", "c", "e", "t", "v">>,
     <<"h", "o", "s", "t", "n", "a", "m", "e">>,
     <<"v", "e", "r", "s", "i", "o", "n">>,
     <<"m", "a", "p">>,
     <<"t", "a", "g", "s">>,
     <<"p", "l", "a", "y", "e", "r", "s">>,
     <<"e", "d", "i", "c", "t", "s">>}

\* line is neither a header line with a recognised key nor a row matching
\* the player-row pattern the flag selects
Ignored(line, isFull) ==
    IF HasAt(line, 1, <<"#">>) THEN RowMatch(line, isFull) = <<>>
    ELSE LET colons == {j \in 1..Len(line) : line[j] = ":"}
         IN  \/ colons = {}
             \/ TrimRight(SubSeq(line, 1, Least(colons) - 1)) \notin RecognisedKeys

\* the lines joined by line feeds
RECURSIVE JoinLines(_)
JoinLines(lines) ==
    IF lines = <<>> THEN <<>>
    ELSE IF Len(lines) = 1 THEN lines[1]
    ELSE lines[1] \o <<"\n">> \o JoinLines(Tail(lines))

\* the text without its ignored lines
RECURSIVE WithoutIgnored(_, _)
WithoutIgnored(lines, isFull) ==
    IF lines = <<>> THEN <<>>
    ELSE IF Ignored(lines[1], isFull) THEN WithoutIgnored(Tail(lines), isFull)
    ELSE <<lines[1]>> \o WithoutIgnored(Tail(lines), isFull)

\* C26: lines of a status text that are neither a header line with a
\* recognised key nor a row matching the selected player-row pattern have no
\* effect: the text parses to what the text without these lines parses to,
\* and a text of such lines only gives the empty Status and no error.
C26_IgnoredLinesNoEffect ==
    op = "ParseStatus" =>
        LET kept == WithoutIgnored(StatusTextLines, full)
        IN  /\ parsed = ParseStatus(JoinLines(kept), full)
            /\ kept = <<>> =>
                   /\ ~parsed.panic
                   /\ parsed.err = "nil"
                   /\ parsed.s = [NoStatus EXCEPT !.PlayersCount = GoInt(0)]

\* a text with a header line of unknown key before a row that is parsed
C26_Witness ==
    /\ op = "ParseStatus"
    /\ Len(StatusTextLines) = 3
    /\ Ignored(StatusTextLines[1], full)
    /\ StatusTextLines[1] # <<>>
    /\ ~HasAt(StatusTextLines[1], 1, <<"#">>)
    /\ \E j \in 1..Len(StatusTextLines[1]) : StatusTextLines[1][j] = ":"
    /\ ~Ignored(StatusTextLines[2], full)
    /\ parsed.err = "nil" /\ ~parsed.panic
    /\ Len(parsed.s.Players) = 1

\* a row that the pattern of the flag does not match is skipped
UnmatchedRowSkipped ==
    /\ op = "ParseStatus"
    /\ ~full
    /\ \E k \in 1..Len(StatusTextLines) :
        /\ HasAt(StatusTextLines[k], 1, <<"#", " ", " ">>)
        /\ Ignored(StatusTextLines[k], full)
    /\ parsed.err = "nil" /\ ~parsed.panic
    /\ parsed.s.Players = <<>>

\* the 11 AccountTypes, Invalid to AnonUser
NamedAccountTypes == AccountTypeInvalid..AccountTypeAnonUser

\* C27: the account-type letter table is a bijection: distinct AccountTypes
\* have distinct Letter() values and accountTypeFromLetter(t.Letter()) == t for
\* each of the 11 AccountTypes, P2PSuperSeeder having the empty letter.
C27_LetterBijection ==
    (op = "Literal" /\ sid.AccountType \in NamedAccountTypes) =>
        /\ accountTypeFromLetter(Letter(sid.AccountType)) = sid.AccountType
        /\ \A t \in NamedAccountTypes :
               t # sid.AccountType => Letter(t) # Letter(sid.AccountType)
        /\ Letter(sid.AccountType) = <<>> <=> sid.AccountType = AccountTypeP2PSuperSeeder
        /\ Cardinality({Letter(t) : t \in NamedAccountTypes}) = AccountTypeAnonUser + 1

\* a SteamID of type P2PSuperSeeder, whose letter is empty
C27_Witness ==
    /\ op = "Literal"
    /\ sid.AccountType = AccountTypeP2PSuperSeeder
    /\ Letter(sid.AccountType) = <<>>
    /\ accountTypeFromLetter(<<>>) = sid.AccountType

\* C28: ParseStatus is total: for every text and either value of the flag
\* it returns a Status or an error and never panics with an index out of
\* range, also on a players or edicts line with fewer tokens than the parser
\* indexes and on a row whose connected time has more than three parts.
C28_ParseStatusTotal ==
    op = "ParseStatus" =>
        /\ ~parsed.panic
        /\ parsed.err # "nil" => parsed.s = NoStatus

\* the content of the line with the given key, when the text has one
HeaderContents(key) ==
    {TrimSpace(SplitN(StatusTextLines[k], ":")[2]) :
        k \in {j \in 1..Len(StatusTextLines) :
                 /\ ~HasAt(StatusTextLines[j], 1, <<"#">>)
                 /\ Len(SplitN(StatusTextLines[j], ":")) = 2
                 /\ TrimRight(SplitN(StatusTextLines[j], ":")[1]) = key}}

\* the text has a players line of fewer than 5 tokens, an edicts line of
\* fewer than 4 tokens, or a matched row with more than 3 parts of connected
\* time
IndexedPastEnd ==
    \/ \E c \in HeaderContents(<<"p", "l", "a", "y", "e", "r", "s">>) : Len(Split(ReplaceAll(c), " ")) < 5
    \/ \E c \in HeaderContents(<<"e", "d", "i", "c", "t", "s">>) :
           Len(Split(c, " ")) < 4 /\ ParseUint(Split(c, " ")[1]).ok
    \/ \E k \in 1..Len(StatusTextLines) :
           /\ RowMatch(StatusTextLines[k], full) # <<>>
           /\ Len(Split(RowMatch(StatusTextLines[k], full)[5], ":")) > 3

\* the call panics only on a text with one of the three short slices
PanicsOnlyPastEnd ==
    (op = "ParseStatus" /\ parsed.panic) => IndexedPastEnd

\* a players line of two tokens, on which the call panics
ShortPlayersLinePanics ==
    /\ op = "ParseStatus"
    /\ status = <<"p", "l", "a", "y", "e", "r", "s", " ", ":", " ", "2", " ", "h", "u", "m", "a", "n", "s", "\n">>
    /\ parsed.panic

\* an edicts line of two tokens, on which the call panics
ShortEdictsLinePanics ==
    /\ op = "ParseStatus"
    /\ status = <<"e", "d", "i", "c", "t", "s", " ", " ", ":", " ", "1", "0", " ", "u", "s", "e", "d", "\n">>
    /\ parsed.panic

\* a row with four parts of connected time, on which the call panics
LongConnectedTimePanics ==
    /\ op = "ParseStatus"
    /\ full
    /\ status = <<"#", " ", " ", " ", " ", " ", " ", "4", " ", "\"", "C", "\"", " ", "[", "U", ":", "1", ":", "9", "]", " ", "1", ":", "2", ":", "3", ":", "4", " ", "8", "5", " ", "0", " ", "a", "c", "t", "i", "v", "e", " ", "1", ".", "2", ".", "3", ".", "4", ":", "2", "7", "0", "0", "5", "\n">>
    /\ parsed.panic

\* 4th segments put in the place of the one the text has
InstanceSegments == {<<":", "0">>, <<":", "1">>, <<":", "4">>, <<":", "1", "0", "3", "7", "2">>}

\* the Steam3 text of match m with the 4th segment seg, <<>> for none
WithSegment(m, seg) ==
    <<"[">> \o m[2] \o <<":">> \o m[3] \o <<":">> \o m[4] \o seg \o <<"]">>

\* C29: New ignores the 4th (instance) segment of a Steam3 text: texts that
\* differ only in that segment decode to equal SteamIDs, and the Instance of
\* the result is the one the letter gives.
C29_Steam3InstanceSegmentIgnored ==
    (op \in {"New", "NewText"} /\ input.type = "string" /\ reSteam3(input.str) # <<>>) =>
        LET m == reSteam3(input.str)
            l == m[2][1]
        IN  /\ input.str = WithSegment(m, m[5])
            /\ Equal(New(StrIn(WithSegment(m, <<>>))), sid)
            /\ \A seg \in InstanceSegments : Equal(New(StrIn(WithSegment(m, seg))), sid)
            /\ ParseUint(m[4]).ok =>
                   sid.Instance = (IF l = "c" THEN ClanMask
                                   ELSE IF l = "L" THEN Lobby
                                   ELSE IF l = "U" THEN InstanceDesktop
                                   ELSE IF l = "C" THEN InstanceConsole
                                   ELSE IF l = "W" THEN InstanceWeb
                                   ELSE InstanceAll)

\* [A:1:729372672:10372] decodes with Instance All
C29_Witness ==
    /\ op = "New"
    /\ input.str = <<"[", "A", ":", "1", ":", "7", "2", "9", "3", "7", "2", "6", "7", "2", ":", "1", "0", "3", "7", "2", "]">>
    /\ reSteam3(input.str)[5] = <<":", "1", "0", "3", "7", "2">>
    /\ sid.Instance = InstanceAll
    /\ sid.AccountType = AccountTypeAnonGameServer
    /\ sid = New(StrIn(<<"[", "A", ":", "1", ":", "7", "2", "9", "3", "7", "2", "6", "7", "2", "]">>))

\* when the scanned body is the given rendering, the scanner returned [i]
ScannedAs(i, rendering) == op = "FindReaderSteamIDs" /\ body = rendering => ids = <<i>>

\* C30: for every valid SteamID i with Universe Public, AccountType Individual
\* and Instance Desktop, scanning a text that consists only of i.Steam(false),
\* only of i.Steam3() or only of i.String() returns the one-element sequence
\* [i].
C30_ScannerCodecAgree ==
    \A a \in RenderAccounts :
        LET i == DesktopUser(a)
        IN  Valid(i) =>
                /\ ScannedAs(i, Steam(i, FALSE))
                /\ ScannedAs(i, Steam3(i))
                /\ ScannedAs(i, String(i))

\* the account id is below 2000000000
Below2000000000(a) == a[2] < 30517 \/ (a[2] = 30517 /\ a[1] < 37888)

\* the account id is below 2039734272, the packed value below 76561200000000000
Below2039734272(a) == a[2] < 31123 \/ (a[2] = 31123 /\ a[1] < 57344)

\* the scanner returns [i] for i.Steam3() always, for i.Steam(false) when the
\* account id is below 2000000000 and for i.String() when it is below
\* 2039734272
ScannerCodecAgreeInRange ==
    \A a \in RenderAccounts :
        LET i == DesktopUser(a)
        IN  /\ ScannedAs(i, Steam3(i))
            /\ Below2000000000(a) => ScannedAs(i, Steam(i, FALSE))
            /\ Below2039734272(a) => ScannedAs(i, String(i))

\* STEAM_0:1:2147483647 scanned as the SteamID of STEAM_0:1:214748364
Steam2Truncated ==
    /\ op = "FindReaderSteamIDs"
    /\ body = Steam(DesktopUser(<<MaxLimb, MaxLimb>>), FALSE)
    /\ Len(ids) = 1
    /\ ids[1] # DesktopUser(<<MaxLimb, MaxLimb>>)
    /\ Steam(ids[1], FALSE) = SubSeq(body, 1, Len(body) - 1)

\* 76561200000000000 is not found
Steam64NotFound ==
    /\ op = "FindReaderSteamIDs"
    /\ body = String(DesktopUser(<<57344, 31123>>))
    /\ Valid(DesktopUser(<<57344, 31123>>))
    /\ ids = <<>>

====
